---- MODULE Spec2Model ----
(***************************************************************************)
(* Verification model of the KYC / liveness verification service:          *)
(*   - routers/webhook.py        webhook authentication and dispatch       *)
(*   - services/verification_service.py   session state machine            *)
(*   - services/sumsub_service.py         provider client                  *)
(* Two specifications are defined over the same variables:                 *)
(*   Spec     request handlers running concurrently against the stores     *)
(*   SpecSig  verify_webhook_signature applied to enumerated inputs        *)
(***************************************************************************)
EXTENDS Integers, Sequences, FiniteSets, TLC

VARIABLES
    settings,           \* config.Settings (SUMSUB_WEBHOOK_SECRET)
    now,                \* int(time.time()), the clock in seconds
    kyc_sessions,       \* collection "kyc_sessions", in insertion order
    liveness_sessions,  \* collection "liveness_sessions", in insertion order
    users,              \* collection "users", keyed by user_id
    provider,           \* the remote provider: applicants and accepted uploads
    proc,               \* request handlers in flight, one record per worker
    reqs,               \* number of requests received so far
    vw_in,              \* SpecSig: the (body, headers) verify_webhook_signature is applied to
    vw_out,             \* SpecSig: its outcome
    img_in,             \* SpecImage: the byte buffer whose encoding a step is given
    img_out,            \* SpecImage: what the step decodes before the upload
    sg                  \* SpecSign: a provider request being serialized, signed and sent

vars == <<settings, now, kyc_sessions, liveness_sessions, users, provider,
          proc, reqs, vw_in, vw_out, img_in, img_out, sg>>

Absent == "absent"      \* a document field or header that is not set

\* ------------------------------------------------------------------------
\* Strings that the code inspects are sequences of tokens.
\* ------------------------------------------------------------------------

RECURSIVE LStrip(_)
LStrip(s) == IF s # <<>> /\ Head(s) = " " THEN LStrip(Tail(s)) ELSE s

RECURSIVE RStrip(_)
RStrip(s) ==
    IF s # <<>> /\ s[Len(s)] = " " THEN RStrip(SubSeq(s, 1, Len(s) - 1)) ELSE s

\* str.strip()
Strip(s) == RStrip(LStrip(s))

\* str.upper() on the algorithm names that occur
Upper(a) ==
    CASE a = "hmac_sha256_hex" -> "HMAC_SHA256_HEX"
      [] a = "hmac_sha512_hex" -> "HMAC_SHA512_HEX"
      [] a = "Hmac_Sha1_Hex"   -> "HMAC_SHA1_HEX"
      [] OTHER -> a

\* ------------------------------------------------------------------------
\* routers/webhook.py : verify_webhook_signature
\* ------------------------------------------------------------------------

\* hmac.new(key, msg, hash_func): a keyed digest without collisions
HmacNew(key, msg, hash_func) == [h |-> hash_func, k |-> key, m |-> msg]

\* .hexdigest(): the lowercase hexadecimal text of a digest
HexDigest(d) == [kind |-> "hex", d |-> d, upper |-> FALSE]

\* the same hexadecimal text in upper case (what a sender may put in the header)
HexUpper(d) == [kind |-> "hex", d |-> d, upper |-> TRUE]

NoDigest == [h |-> "none", k |-> <<>>, m |-> "none"]
EmptyText == [kind |-> "empty", d |-> NoDigest, upper |-> FALSE]
NonAsciiText == [kind |-> "nonascii", d |-> NoDigest, upper |-> FALSE]

\* alg_map, and alg_map.get(alg_header)
alg_map == [HMAC_SHA256_HEX |-> "sha256", HMAC_SHA512_HEX |-> "sha512",
            HMAC_SHA1_HEX |-> "sha1"]

\* alg_map.get with a fallback to SHA-256 for an unknown algorithm name
alg_map_get_fallback(alg_header) ==
    IF alg_header \in DOMAIN alg_map THEN alg_map[alg_header] ELSE "sha256"

alg_map_get(alg_header) ==
    IF alg_header \in DOMAIN alg_map THEN alg_map[alg_header] ELSE "None"

\* headers.get(name, default); headers.present are the header names received
headers_get(headers, name, default) ==
    IF name \in headers.present THEN headers[name] ELSE default

\* a comparison of the digests that ignores the case of the hexadecimal text
compare_digest_nocase(a, b) ==
    IF a.kind = "nonascii" \/ b.kind = "nonascii" THEN "raise"
    ELSE IF a.kind = b.kind /\ a.d = b.d THEN "True" ELSE "False"

\* hmac.compare_digest(a, b) on str arguments: TypeError unless both are ASCII
compare_digest(a, b) ==
    IF a.kind = "nonascii" \/ b.kind = "nonascii" THEN "raise"
    ELSE IF a = b THEN "True" ELSE "False"

\* the body of the try block: "True", "False" or "raise"
verify_webhook_signature_body(body, headers, secret) ==
    LET signature == headers_get(headers, "x_payload_digest", EmptyText)
        alg_header == Upper(headers_get(headers, "x_payload_digest_alg", "HMAC_SHA256_HEX"))
        secret_key == Strip(secret)
        hash_func == alg_map_get(alg_header)
        expected_sig == HexDigest(HmacNew(secret_key, body, hash_func))
    IN  IF signature = EmptyText THEN "False"
        ELSE IF secret_key = <<>> THEN "False"
        ELSE IF hash_func = "None" THEN "False"
        ELSE compare_digest(expected_sig, signature)

\* try: ... except Exception: return False
verify_webhook_signature_outcome(body, headers, secret) ==
    LET r == verify_webhook_signature_body(body, headers, secret)
    IN  IF r = "raise" THEN [value |-> FALSE, raised |-> FALSE]
        ELSE [value |-> (r = "True"), raised |-> FALSE]

\* a check that accepts every request
AcceptAnySignature(body, headers) == TRUE

verify_webhook_signature(body, headers) ==
    verify_webhook_signature_outcome(body, headers, settings.SUMSUB_WEBHOOK_SECRET).value

\* ------------------------------------------------------------------------
\* Bounds and input domains
\* ------------------------------------------------------------------------

MaxReqs == 3            \* requests received in one behaviour
MaxApplicants == 2      \* applicants the provider creates
MaxClock == 1           \* last value of the clock

Procs == {"w1", "w2"}   \* request handlers that can be in flight together

\* the handlers are interchangeable: a request goes to w2 only while w1 is busy
Available(p, pr) == p = "w1" \/ pr["w1"].pc # "idle"

\* user ids of the callers; the second one contains the text "liveness"
UserIds == {<<"u1">>, <<"liveness", "u2">>}

\* image_base64 strings: two base64 characters (decodable once re-padded)
\* and one base64 character (never decodable)
Images == {<<"Q", "Q">>, <<"Q">>}

ReviewStatuses == {"approved", "rejected", "pending", "onHold"}

WebhookSecrets == {<<"s", "k">>}

\* ------------------------------------------------------------------------
\* Documents
\* ------------------------------------------------------------------------

\* f"kyc_{user_id}_{int(time.time())}" / f"liveness_{user_id}_{int(time.time())}"
ExternalUserId(kind, user_id, t) == <<kind, "_">> \o user_id \o <<"_", ToString(t)>>

\* a reference no session was ever created with
UnknownRef == <<"kyc", "_", "ghost", "_", "0">>

\* the parsed webhook payload (data), and the value of a webhook_data field not set
Payload(ext, review) == [externalUserId |-> ext, reviewStatus |-> review]
NoData == Payload(<<>>, Absent)

\* a session document whose key is generated locally, from the collection's size
NewKycDocLocalKey(id, user_id, ext, t) ==
    [kyc_session_id |-> Len(kyc_sessions) + 1, user_id |-> user_id,
     external_user_id |-> ext,
     verification_type |-> "kyc", status |-> "initiated",
     steps_completed |-> <<>>, created_at |-> t,
     document_front_added |-> Absent, document_back_added |-> Absent,
     document_type |-> Absent, country |-> Absent,
     selfie_added |-> Absent, matches_document |-> Absent,
     face_match_score |-> Absent,
     verified |-> Absent, review_status |-> Absent, webhook_data |-> NoData]

\* session_doc of start_kyc_verification
NewKycDoc(id, user_id, ext, t) ==
    [kyc_session_id |-> id, user_id |-> user_id, external_user_id |-> ext,
     verification_type |-> "kyc", status |-> "initiated",
     steps_completed |-> <<>>, created_at |-> t,
     document_front_added |-> Absent, document_back_added |-> Absent,
     document_type |-> Absent, country |-> Absent,
     selfie_added |-> Absent, matches_document |-> Absent,
     face_match_score |-> Absent,
     verified |-> Absent, review_status |-> Absent, webhook_data |-> NoData]

\* session_doc of start_liveness_detection
NewLivenessDoc(id, user_id, ext, t) ==
    [session_id |-> id, user_id |-> user_id, external_user_id |-> ext,
     verification_type |-> "liveness", status |-> "initiated", created_at |-> t,
     selfie_added |-> Absent, is_live |-> Absent, confidence |-> Absent,
     review_status |-> Absent, webhook_data |-> NoData]

\* a user_id without a document in "users"
NoUser ==
    [exists |-> FALSE,
     kyc_completed |-> Absent, verified |-> Absent, kyc_session_id |-> 0,
     kyc_review_status |-> Absent,
     liveness_completed |-> Absent, liveness_session_id |-> 0,
     liveness_verified |-> Absent, liveness_review_status |-> Absent]

\* Python's str(bool)
PyBool(b) == IF b THEN "True" ELSE "False"

\* collection.find_one(filter): position of the first matching document, 0 for None
FindOne(coll, key, value) ==
    IF \E i \in 1..Len(coll) : coll[i][key] = value
    THEN CHOOSE i \in 1..Len(coll) :
            coll[i][key] = value /\ \A j \in 1..(i - 1) : coll[j][key] # value
    ELSE 0

\* an update document {"$set": set, "$push": {"steps_completed": push}}
Update(set, push) == [set |-> set, push |-> push]

\* a write computed from the document as it was read before the provider call:
\* the list of step tags is stored whole, without what was pushed since
ApplyUpdateFromSnapshot(d, update) ==
    LET after == [f \in DOMAIN d |->
                    IF f \in DOMAIN update.set THEN update.set[f] ELSE d[f]]
    IN  IF update.push = <<>> THEN after
        ELSE [after EXCEPT !.steps_completed = update.push]

\* the document d after the update
ApplyUpdate(d, update) ==
    LET after == [f \in DOMAIN d |->
                    IF f \in DOMAIN update.set THEN update.set[f] ELSE d[f]]
    IN  IF update.push = <<>> THEN after
        ELSE [after EXCEPT !.steps_completed = @ \o update.push]

\* collection.update_one(filter, update): updates the first matching document
UpdateOne(coll, key, value, update) ==
    LET i == FindOne(coll, key, value)
    IN  IF i = 0 THEN coll ELSE [coll EXCEPT ![i] = ApplyUpdate(@, update)]

\* users_collection.update_one({"user_id": user_id}, {"$set": ...}, upsert=True)
UpsertUser(coll, user_id, update) ==
    [coll EXCEPT ![user_id] = [ApplyUpdate(@, update) EXCEPT !.exists = TRUE]]

\* ------------------------------------------------------------------------
\* Request handlers in flight
\* ------------------------------------------------------------------------

\* the raw request body: the JSON text of a payload in one of its byte
\* layouts (fmt), or bytes that are not JSON (valid = FALSE)
NoBody == [valid |-> FALSE, externalUserId |-> <<>>, reviewStatus |-> "none", fmt |-> "none"]
NoHeaders == [present |-> {}, x_payload_digest |-> EmptyText, x_payload_digest_alg |-> ""]
NoResult == [success |-> FALSE, error |-> "none", status_code |-> 0]
NoResponse == [code |-> 0, status |-> "none"]

IdleProc ==
    [op |-> "none", pc |-> "idle", sid |-> 0, uid |-> <<>>,
     body |-> NoBody, headers |-> NoHeaders, ext |-> <<>>, found |-> 0,
     seen |-> "none", fetched |-> "none", progress |-> 0,
     result |-> NoResult, response |-> NoResponse]

Ok == [success |-> TRUE, error |-> "none", status_code |-> 0]
Fail(error, status_code) == [success |-> FALSE, error |-> error, status_code |-> status_code]

\* ------------------------------------------------------------------------
\* String tests and image decoding
\* ------------------------------------------------------------------------

\* str.lower() on the tokens that occur
Lower(s) == [i \in 1..Len(s) |-> IF s[i] = "LIVENESS" THEN "liveness" ELSE s[i]]

\* "text" in s
Contains(s, text) == \E i \in 1..Len(s) : s[i] = text

\* the image string decoded as it came, without re-padding
RePadNone(image) == image

\* image_base64 += '=' * (4 - missing_padding) when missing_padding is not 0
RePad(image) ==
    LET missing_padding == Len(image) % 4
    IN  IF missing_padding # 0
        THEN image \o [i \in 1..(4 - missing_padding) |-> "="]
        ELSE image

\* the base64 alphabet; a character's value is its position less one
B64Alphabet ==
    <<"A", "B", "C", "D", "E", "F", "G", "H", "I", "J", "K", "L", "M", "N", "O", "P",
      "Q", "R", "S", "T", "U", "V", "W", "X", "Y", "Z", "a", "b", "c", "d", "e", "f",
      "g", "h", "i", "j", "k", "l", "m", "n", "o", "p", "q", "r", "s", "t", "u", "v",
      "w", "x", "y", "z", "0", "1", "2", "3", "4", "5", "6", "7", "8", "9", "+", "/">>

B64Value(c) == (CHOOSE i \in 1..Len(B64Alphabet) : B64Alphabet[i] = c) - 1

IsB64Char(c) == \E i \in 1..Len(B64Alphabet) : B64Alphabet[i] = c

\* the data characters of s, in order (characters outside the alphabet are
\* discarded), and the number of its padding characters
B64Data(s) == SelectSeq(s, IsB64Char)
B64Pads(s) == Cardinality({i \in 1..Len(s) : s[i] = "="})

\* base64.b64decode(s) succeeds when the data characters fill whole groups of
\* four, or leave a group of two or three that the padding completes
B64DecodeOk(s) ==
    LET q == Len(B64Data(s)) % 4
    IN  q = 0 \/ (q >= 2 /\ q + B64Pads(s) >= 4)

\* the bytes of a sequence of 6-bit values: four values give three bytes, a
\* last group of two gives one byte, of three gives two
RECURSIVE B64Bytes(_)
B64Bytes(v) ==
    IF Len(v) < 2 THEN <<>>
    ELSE IF Len(v) = 2 THEN <<v[1] * 4 + v[2] \div 16>>
    ELSE IF Len(v) = 3
    THEN <<v[1] * 4 + v[2] \div 16, (v[2] % 16) * 16 + v[3] \div 4>>
    ELSE <<v[1] * 4 + v[2] \div 16, (v[2] % 16) * 16 + v[3] \div 4,
           (v[3] % 4) * 64 + v[4]>> \o B64Bytes(SubSeq(v, 5, Len(v)))

\* base64.b64decode(s), where it succeeds
b64decode(s) == B64Bytes([i \in 1..Len(B64Data(s)) |-> B64Value(B64Data(s)[i])])

ImageDecodes(image) == B64DecodeOk(RePad(image))

\* the decoding block of a submission step: image_bytes, or the error return
DecodeImage(image) ==
    IF ImageDecodes(image)
    THEN [ok |-> TRUE, bytes |-> b64decode(RePad(image))]
    ELSE [ok |-> FALSE, bytes |-> <<>>]

\* ------------------------------------------------------------------------
\* The provider
\* ------------------------------------------------------------------------

UploadTags == {"FRONT_SIDE", "BACK_SIDE", "SELFIE"}

\* status codes of a failed provider call; 0 stands for a transport failure
ProviderFailures == {401, 404, 0}

NoProvider ==
    [applicants |-> <<>>,
     uploads |-> [id \in 1..MaxApplicants |-> [t \in UploadTags |-> 0]]]

\* POST /resources/applicants answered 201: the applicant exists remotely
ProviderCreate(pr, ext) ==
    [pr EXCEPT !.applicants = Append(@, [id |-> Len(@) + 1, externalUserId |-> ext])]

\* POST /resources/applicants/{id}/info/idDoc answered 200/201
ProviderAccept(pr, id, tag) ==
    [pr EXCEPT !.uploads[id][tag] = @ + 1]

\* session keys a client may name: every applicant id, and 0 that names none
SessionKeys == 0..Len(provider.applicants)

\* ------------------------------------------------------------------------
\* Requests
\* ------------------------------------------------------------------------

\* references a webhook can carry: those of the provider's applicants, and an unknown one
WebhookRefs == {provider.applicants[i].externalUserId : i \in 1..Len(provider.applicants)}
               \cup {UnknownRef}

JsonBody(ext, review, fmt) ==
    [valid |-> TRUE, externalUserId |-> ext, reviewStatus |-> review, fmt |-> fmt]
NotJsonBody == [valid |-> FALSE, externalUserId |-> <<>>, reviewStatus |-> "none", fmt |-> "raw"]

WebhookBodies ==
    {JsonBody(e, r, "compact") : e \in WebhookRefs, r \in ReviewStatuses} \cup {NotJsonBody}

\* headers as the provider sends them, signed with the shared secret
SignedHeaders(body, secret, alg, hash_func) ==
    [present |-> {"x_payload_digest", "x_payload_digest_alg"},
     x_payload_digest |-> HexDigest(HmacNew(Strip(secret), body, hash_func)),
     x_payload_digest_alg |-> alg]

\* headers of a sender that does not know the secret
ForgedHeaders(body) ==
    [present |-> {"x_payload_digest", "x_payload_digest_alg"},
     x_payload_digest |-> HexDigest(HmacNew(<<"guess">>, body, "sha256")),
     x_payload_digest_alg |-> "HMAC_SHA256_HEX"]

WebhookHeaders(body) ==
    {SignedHeaders(body, settings.SUMSUB_WEBHOOK_SECRET, "HMAC_SHA256_HEX", "sha256"),
     ForgedHeaders(body), NoHeaders}

\* a handler that returned sends its response before anything else happens
NoneDone == \A q \in Procs : proc[q].pc # "done"

\* handler p is in operation op at step pc
At(p, op, pc) == NoneDone /\ proc[p].op = op /\ proc[p].pc = pc

\* a request arrives at an idle handler
Arrive(p) ==
    /\ NoneDone
    /\ proc[p].pc = "idle"
    /\ Available(p, proc)
    /\ reqs < MaxReqs
    /\ reqs' = reqs + 1

\* the response has been sent
Respond(p) ==
    /\ proc[p].pc = "done"
    /\ proc' = [proc EXCEPT ![p] = IdleProc]
    /\ UNCHANGED <<settings, now, kyc_sessions, liveness_sessions, users, provider,
                   reqs, vw_in, vw_out, img_in, img_out, sg>>

\* the clock is read only to stamp a reference or created_at
Stamped(t) ==
    \/ \E i \in 1..Len(provider.applicants) :
          provider.applicants[i].externalUserId[Len(provider.applicants[i].externalUserId)]
            = ToString(t)
    \/ \E i \in 1..Len(kyc_sessions) : kyc_sessions[i].created_at = t
    \/ \E i \in 1..Len(liveness_sessions) : liveness_sessions[i].created_at = t

\* time.time() / datetime.utcnow(): the clock has not gone back since it was
\* last read; seconds in which nothing was stamped are not counted
Clock == {now} \cup (IF now < MaxClock /\ Stamped(now) THEN {now + 1} ELSE {})

\* the handler reads the clock and gets t
ReadClock(t) == t \in Clock /\ now' = t

\* the handler returns: result of the service call and the route's response
\* (a webhook keeps the request it was called with)
Returned(op, body, headers, result, response) ==
    [IdleProc EXCEPT !.op = op, !.pc = "done", !.body = body, !.headers = headers,
                     !.result = result, !.response = response]

Finish(p, op, result, response) ==
    proc' = [proc EXCEPT ![p] =
                Returned(op, proc[p].body, proc[p].headers, result, response)]

\* ------------------------------------------------------------------------
\* Routes: the response a route builds from the service result
\* ------------------------------------------------------------------------

Response(code, status) == [code |-> code, status |-> status]

\* routers/kyc.py: every route raises HTTPException(400) inside its try block and
\* its `except Exception` turns that into HTTPException(500)
KycRouteResponse(result) ==
    IF result.success THEN Response(200, "success") ELSE Response(500, "error")

\* routers/liveness.py /start: the same shape as the KYC routes
StartLivenessRouteResponse(result) ==
    IF result.success THEN Response(200, "success") ELSE Response(500, "error")

\* routers/liveness.py /check: HTTPException is re-raised
ProcessLivenessRouteResponse(result) ==
    IF result.success THEN Response(200, "success")
    ELSE IF result.error = "Session not found" THEN Response(404, "error")
    ELSE IF result.status_code = 404 THEN Response(404, "error")
    ELSE Response(400, "error")

\* routers/liveness.py /complete: HTTPException is re-raised
CompleteLivenessRouteResponse(result) ==
    IF result.success THEN Response(200, "success") ELSE Response(400, "error")

\* the response of the route that called the service
RouteResponse(route, result) ==
    CASE route = "kyc" -> KycRouteResponse(result)
      [] route = "liveness/check" -> ProcessLivenessRouteResponse(result)
      [] route = "liveness/complete" -> CompleteLivenessRouteResponse(result)

\* a step that returns from its first part, before any session write; sid keeps
\* the session key the request named
FinishStep(p, op, sid, result, route) ==
    proc' = [proc EXCEPT ![p] =
                [Returned(op, proc[p].body, proc[p].headers, result,
                          RouteResponse(route, result)) EXCEPT !.sid = sid]]

\* ------------------------------------------------------------------------
\* services/verification_service.py : KYC flow
\*
\* A handler runs without interruption between two awaited store operations
\* (the provider calls are blocking), so each action is one store operation
\* together with the code that runs up to the next one.
\* ------------------------------------------------------------------------

DocType == "PASSPORT"   \* ScanDocumentRequest.doc_type
Country == "USA"        \* ScanDocumentRequest.country

Others == <<settings, now, vw_in, vw_out, img_in, img_out, sg>>
Config == <<settings, vw_in, vw_out, img_in, img_out, sg>>

\* handler p goes on with operation op at step pc
InFlight(op, pc, sid, uid, found, seen) ==
    [IdleProc EXCEPT !.op = op, !.pc = pc, !.sid = sid, !.uid = uid,
                     !.found = found, !.seen = seen, !.result = Ok]

\* sumsub.create_kyc_applicant: the provider answers 201 with a new id, or fails
start_kyc_verification_call(p) ==
    /\ Arrive(p)
    /\ \E user_id \in UserIds, t \in Clock :
          LET ext == ExternalUserId("kyc", user_id, t)
          IN  /\ ReadClock(t)
              /\ \/ /\ Len(provider.applicants) < MaxApplicants
                    /\ provider' = ProviderCreate(provider, ext)
                    /\ proc' = [proc EXCEPT ![p] =
                           [InFlight("start_kyc_verification", "insert",
                                     Len(provider.applicants) + 1, user_id, 0, "none")
                               EXCEPT !.ext = ext]]
                 \/ /\ \E c \in ProviderFailures :
                          Finish(p, "start_kyc_verification", Fail("Sumsub API Error", c),
                                 KycRouteResponse(Fail("Sumsub API Error", c)))
                    /\ UNCHANGED provider
    /\ UNCHANGED <<kyc_sessions, liveness_sessions, users>>
    /\ UNCHANGED Config

\* an insert that is sent again after its acknowledgement was lost
start_kyc_verification_insert_resent(p) ==
    /\ At(p, "start_kyc_verification", "insert")
    /\ \E t \in Clock :
          /\ ReadClock(t)
          /\ kyc_sessions' =
                kyc_sessions \o << NewKycDoc(proc[p].sid, proc[p].uid, proc[p].ext, t),
                                   NewKycDoc(proc[p].sid, proc[p].uid, proc[p].ext, t) >>
    /\ Finish(p, proc[p].op, Ok, KycRouteResponse(Ok))
    /\ UNCHANGED <<liveness_sessions, users, provider>>
    /\ UNCHANGED <<Config, reqs>>

\* kyc_sessions.insert_one(session_doc)
start_kyc_verification_insert(p) ==
    /\ At(p, "start_kyc_verification", "insert")
    /\ \E t \in Clock :
          /\ ReadClock(t)
          /\ kyc_sessions' = Append(kyc_sessions, NewKycDoc(proc[p].sid, proc[p].uid, proc[p].ext, t))
    /\ Finish(p, proc[p].op, Ok, KycRouteResponse(Ok))
    /\ UNCHANGED <<liveness_sessions, users, provider>>
    /\ UNCHANGED <<Config, reqs>>

\* an upload step that goes on to the session write when the provider refuses
UploadIgnoringRefusal(p, op, sid, found, seen, image, tag, decodeError, route) ==
    IF ~ImageDecodes(image)
    THEN /\ FinishStep(p, op, sid, Fail(decodeError, 0), route)
         /\ UNCHANGED provider
    ELSE \/ /\ provider' = ProviderAccept(provider, sid, tag)
            /\ proc' = [proc EXCEPT ![p] = InFlight(op, "write", sid, <<>>, found, seen)]
         \/ /\ proc' = [proc EXCEPT ![p] = InFlight(op, "write", sid, <<>>, found, seen)]
            /\ UNCHANGED provider

\* the decoded image is uploaded: the provider accepts it and answers, accepts
\* it and the answer is lost, or does not accept it
Upload(p, op, sid, found, seen, image, tag, decodeError, route) ==
    IF ~ImageDecodes(image)
    THEN /\ FinishStep(p, op, sid, Fail(decodeError, 0), route)
         /\ UNCHANGED provider
    ELSE \/ /\ provider' = ProviderAccept(provider, sid, tag)
            /\ proc' = [proc EXCEPT ![p] = InFlight(op, "write", sid, <<>>, found, seen)]
         \/ /\ provider' = ProviderAccept(provider, sid, tag)
            /\ FinishStep(p, op, sid, Fail("Exception", 0), route)
         \/ /\ \E c \in ProviderFailures :
                  FinishStep(p, op, sid, Fail("Sumsub API Error", c), route)
            /\ UNCHANGED provider

\* a submission step up to its provider call:
\* kyc_sessions.find_one({"kyc_session_id": ...}), decoding, upload
KycUpload(p, op, tag, decodeError) ==
    /\ Arrive(p)
    /\ \E kyc_session_id \in SessionKeys, image \in Images :
          LET i == FindOne(kyc_sessions, "kyc_session_id", kyc_session_id)
          IN  IF i = 0
              THEN /\ FinishStep(p, op, kyc_session_id,
                                 Fail("KYC session not found", 0), "kyc")
                   /\ UNCHANGED provider
              ELSE Upload(p, op, kyc_session_id, i, kyc_sessions[i].status, image,
                          tag, decodeError, "kyc")
    /\ UNCHANGED <<kyc_sessions, liveness_sessions, users>>
    /\ UNCHANGED Others

\* kyc_sessions.update_one({"kyc_session_id": ...}, {"$set": ..., "$push": ...})
KycWrite(p, op, update) ==
    /\ At(p, op, "write")
    /\ kyc_sessions' = UpdateOne(kyc_sessions,
                                 "kyc_session_id", proc[p].sid, update)
    /\ Finish(p, proc[p].op, Ok, KycRouteResponse(Ok))
    /\ UNCHANGED <<liveness_sessions, users, provider>>
    /\ UNCHANGED <<Others, reqs>>

scan_document_front_upload(p) ==
    KycUpload(p, "scan_document_front", "FRONT_SIDE", "Invalid image data")

ScanFrontUpdate ==
    Update([document_front_added |-> "True", document_type |-> DocType,
            country |-> Country],
           <<"document_front">>)

scan_document_front_write(p) == KycWrite(p, "scan_document_front", ScanFrontUpdate)

scan_document_back_upload(p) ==
    KycUpload(p, "scan_document_back", "BACK_SIDE", "Invalid image data")

ScanBackUpdate ==
    Update([document_back_added |-> "True", document_type |-> DocType,
            country |-> Country],
           <<"document_back">>)

scan_document_back_write(p) == KycWrite(p, "scan_document_back", ScanBackUpdate)

verify_kyc_selfie_upload(p) ==
    KycUpload(p, "verify_kyc_selfie", "SELFIE", "Invalid base64 image")

KycSelfieUpdate ==
    Update([selfie_added |-> "True", matches_document |-> "True",
            face_match_score |-> "0.94"],
           <<"selfie">>)

verify_kyc_selfie_write(p) == KycWrite(p, "verify_kyc_selfie", KycSelfieUpdate)

\* the applicant statuses the provider reports
ProviderStatuses == {"pending", "processing", "approved"}

\* the body of GET /resources/applicants/{id} as far as check_kyc_status can
\* tell bodies apart: its status field, and the verificationStatus key the
\* code reads, which a body may lack
ApplicantBodies ==
    {[status |-> s, verificationStatus |-> v] :
        s \in ProviderStatuses, v \in ProviderStatuses \cup {Absent}}

\* data.get('verificationStatus', 'pending')
verificationStatus_get(data) ==
    IF data.verificationStatus = Absent THEN "pending" ELSE data.verificationStatus

\* 75 if status == "processing" else 100 if status == "approved" else 50
Progress(status) ==
    IF status = "processing" THEN 75 ELSE IF status = "approved" THEN 100 ELSE 50

\* a status check that stores the status it fetched in the session
check_kyc_verification_status_caching(p) ==
    /\ Arrive(p)
    /\ \E kyc_session_id \in SessionKeys, data \in ApplicantBodies :
          /\ FindOne(kyc_sessions, "kyc_session_id", kyc_session_id) # 0
          /\ kyc_sessions' = UpdateOne(kyc_sessions, "kyc_session_id", kyc_session_id,
                                       Update([review_status |-> data.status], <<>>))
          /\ proc' = [proc EXCEPT ![p] =
                        [Returned("check_kyc_verification_status", proc[p].body,
                                  proc[p].headers, Ok, RouteResponse("kyc", Ok))
                            EXCEPT !.sid = kyc_session_id,
                                   !.fetched = data.status,
                                   !.progress = Progress(verificationStatus_get(data))]]
    /\ UNCHANGED <<liveness_sessions, users, provider>>
    /\ UNCHANGED Others

\* kyc_sessions.find_one and sumsub.check_kyc_status: the provider's applicant is
\* read and reported, nothing is stored; fetched keeps the status field of the
\* provider's answer, progress what the step returns
check_kyc_verification_status(p) ==
    /\ Arrive(p)
    /\ \E kyc_session_id \in SessionKeys :
          IF FindOne(kyc_sessions, "kyc_session_id", kyc_session_id) = 0
          THEN FinishStep(p, "check_kyc_verification_status", kyc_session_id,
                          Fail("KYC session not found", 0), "kyc")
          ELSE \/ \E data \in ApplicantBodies :
                     proc' = [proc EXCEPT ![p] =
                                [Returned("check_kyc_verification_status", proc[p].body,
                                          proc[p].headers, Ok, RouteResponse("kyc", Ok))
                                    EXCEPT !.sid = kyc_session_id,
                                           !.fetched = data.status,
                                           !.progress =
                                               Progress(verificationStatus_get(data))]]
               \/ \E c \in ProviderFailures :
                     FinishStep(p, "check_kyc_verification_status", kyc_session_id,
                                Fail("response.text", c), "kyc")
    /\ UNCHANGED <<kyc_sessions, liveness_sessions, users, provider>>
    /\ UNCHANGED Others

\* the review verdict the provider reports for an applicant
ProviderVerdicts == {"approved", "rejected"}

\* GET /resources/applicants/{id} of a complete step: success on 200, whatever
\* the body (fetched) says
StatusCall(p, op, sid, uid, found, seen, route) ==
    \/ \E data \in ProviderVerdicts :
          proc' = [proc EXCEPT ![p] =
                      [InFlight(op, "session", sid, uid, found, seen)
                          EXCEPT !.fetched = data]]
    \/ \E c \in ProviderFailures :
          FinishStep(p, op, sid, Fail("Sumsub API Error", c), route)

\* a complete step that asks the provider without looking the session up
complete_kyc_verification_call_unguarded(p) ==
    /\ Arrive(p)
    /\ \E kyc_session_id \in SessionKeys, user_id \in UserIds :
          StatusCall(p, "complete_kyc_verification", kyc_session_id, user_id,
                     FindOne(kyc_sessions, "kyc_session_id", kyc_session_id),
                     "none", "kyc")
    /\ UNCHANGED <<kyc_sessions, liveness_sessions, users, provider>>
    /\ UNCHANGED Others

\* kyc_sessions.find_one and sumsub.complete_kyc_verification
complete_kyc_verification_call(p) ==
    /\ Arrive(p)
    /\ \E kyc_session_id \in SessionKeys, user_id \in UserIds :
          LET i == FindOne(kyc_sessions, "kyc_session_id", kyc_session_id)
          IN  IF i = 0
              THEN FinishStep(p, "complete_kyc_verification", kyc_session_id,
                              Fail("KYC session not found", 0), "kyc")
              ELSE StatusCall(p, "complete_kyc_verification", kyc_session_id, user_id,
                              i, kyc_sessions[i].status, "kyc")
    /\ UNCHANGED <<kyc_sessions, liveness_sessions, users, provider>>
    /\ UNCHANGED Others

CompleteKycUpdate ==
    Update([status |-> "completed", verified |-> "True"], <<"kyc_complete">>)

complete_kyc_verification_session(p) ==
    /\ At(p, "complete_kyc_verification", "session")
    /\ kyc_sessions' = UpdateOne(kyc_sessions,
                                 "kyc_session_id", proc[p].sid,
                                 CompleteKycUpdate)
    /\ proc' = [proc EXCEPT ![p].pc = "user"]
    /\ UNCHANGED <<liveness_sessions, users, provider>>
    /\ UNCHANGED <<Others, reqs>>

CompleteKycUserUpdate(kyc_session_id) ==
    Update([kyc_completed |-> "True", verified |-> "True",
            kyc_session_id |-> kyc_session_id], <<>>)

complete_kyc_verification_user(p) ==
    /\ At(p, "complete_kyc_verification", "user")
    /\ users' = UpsertUser(users, proc[p].uid,
                           CompleteKycUserUpdate(proc[p].sid))
    /\ Finish(p, proc[p].op, Ok, KycRouteResponse(Ok))
    /\ UNCHANGED <<kyc_sessions, liveness_sessions, provider>>
    /\ UNCHANGED <<Others, reqs>>

\* ------------------------------------------------------------------------
\* services/verification_service.py : liveness flow
\* ------------------------------------------------------------------------

\* a start call that stores a session whatever the provider answered
start_liveness_detection_call_unchecked(p) ==
    /\ Arrive(p)
    /\ \E user_id \in UserIds, t \in Clock :
          LET ext == ExternalUserId("liveness", user_id, t)
          IN  /\ ReadClock(t)
              /\ \/ /\ Len(provider.applicants) < MaxApplicants
                    /\ provider' = ProviderCreate(provider, ext)
                    /\ proc' = [proc EXCEPT ![p] =
                           [InFlight("start_liveness_detection", "insert",
                                     Len(provider.applicants) + 1, user_id, 0, "none")
                               EXCEPT !.ext = ext]]
                 \/ /\ proc' = [proc EXCEPT ![p] =
                           [InFlight("start_liveness_detection", "insert",
                                     0, user_id, 0, "none")
                               EXCEPT !.ext = ext]]
                    /\ UNCHANGED provider
    /\ UNCHANGED <<kyc_sessions, liveness_sessions, users>>
    /\ UNCHANGED Config

\* sumsub.start_liveness_session: the provider answers 201 with a new id, or fails
start_liveness_detection_call(p) ==
    /\ Arrive(p)
    /\ \E user_id \in UserIds, t \in Clock :
          LET ext == ExternalUserId("liveness", user_id, t)
          IN  /\ ReadClock(t)
              /\ \/ /\ Len(provider.applicants) < MaxApplicants
                    /\ provider' = ProviderCreate(provider, ext)
                    /\ proc' = [proc EXCEPT ![p] =
                           [InFlight("start_liveness_detection", "insert",
                                     Len(provider.applicants) + 1, user_id, 0, "none")
                               EXCEPT !.ext = ext]]
                 \/ /\ \E c \in ProviderFailures :
                          Finish(p, "start_liveness_detection", Fail("Sumsub API Error", c),
                                 StartLivenessRouteResponse(Fail("Sumsub API Error", c)))
                    /\ UNCHANGED provider
    /\ UNCHANGED <<kyc_sessions, liveness_sessions, users>>
    /\ UNCHANGED Config

\* liveness_sessions.insert_one(session_doc)
start_liveness_detection_insert(p) ==
    /\ At(p, "start_liveness_detection", "insert")
    /\ \E t \in Clock :
          /\ ReadClock(t)
          /\ liveness_sessions' = Append(liveness_sessions, NewLivenessDoc(proc[p].sid, proc[p].uid, proc[p].ext, t))
    /\ Finish(p, proc[p].op, Ok, StartLivenessRouteResponse(Ok))
    /\ UNCHANGED <<kyc_sessions, users, provider>>
    /\ UNCHANGED <<Config, reqs>>

\* liveness_sessions.find_one({"session_id": ...}), decoding, sumsub.add_liveness_selfie
process_liveness_selfie_upload(p) ==
    /\ Arrive(p)
    /\ \E session_id \in SessionKeys, image_base64 \in Images :
          LET i == FindOne(liveness_sessions, "session_id", session_id)
          IN  IF i = 0
              THEN /\ FinishStep(p, "process_liveness_selfie", session_id,
                                 Fail("Session not found", 0), "liveness/check")
                   /\ UNCHANGED provider
              ELSE Upload(p, "process_liveness_selfie", liveness_sessions[i].session_id,
                          i, liveness_sessions[i].status, image_base64, "SELFIE",
                          "Invalid base64 image", "liveness/check")
    /\ UNCHANGED <<kyc_sessions, liveness_sessions, users>>
    /\ UNCHANGED Others

\* is_live and confidence are what sumsub.add_liveness_selfie returns on success
LivenessSelfieUpdate ==
    Update([selfie_added |-> "True", is_live |-> "True", confidence |-> "0.95"], <<>>)

process_liveness_selfie_write(p) ==
    /\ At(p, "process_liveness_selfie", "write")
    /\ liveness_sessions' = UpdateOne(liveness_sessions,
                                      "session_id", proc[p].sid,
                                      LivenessSelfieUpdate)
    /\ Finish(p, proc[p].op, Ok, ProcessLivenessRouteResponse(Ok))
    /\ UNCHANGED <<kyc_sessions, users, provider>>
    /\ UNCHANGED <<Others, reqs>>

\* a complete step that marks the session completed when the provider call failed
complete_liveness_enrollment_call_writing(p) ==
    /\ Arrive(p)
    /\ \E session_id \in SessionKeys, c \in ProviderFailures :
          /\ FindOne(liveness_sessions, "session_id", session_id) # 0
          /\ liveness_sessions' = UpdateOne(liveness_sessions, "session_id", session_id,
                                            Update([status |-> "completed"], <<>>))
          /\ FinishStep(p, "complete_liveness_enrollment", session_id,
                        Fail("Sumsub API Error", c), "liveness/complete")
    /\ UNCHANGED <<kyc_sessions, users, provider>>
    /\ UNCHANGED Others

\* liveness_sessions.find_one and sumsub.complete_liveness_verification
complete_liveness_enrollment_call(p) ==
    /\ Arrive(p)
    /\ \E session_id \in SessionKeys, user_id \in UserIds :
          LET i == FindOne(liveness_sessions, "session_id", session_id)
          IN  IF i = 0
              THEN FinishStep(p, "complete_liveness_enrollment", session_id,
                              Fail("Session not found", 0), "liveness/complete")
              ELSE StatusCall(p, "complete_liveness_enrollment", session_id, user_id,
                              i, liveness_sessions[i].status, "liveness/complete")
    /\ UNCHANGED <<kyc_sessions, liveness_sessions, users, provider>>
    /\ UNCHANGED Others

CompleteLivenessUpdate == Update([status |-> "completed", is_live |-> "True"], <<>>)

complete_liveness_enrollment_session(p) ==
    /\ At(p, "complete_liveness_enrollment", "session")
    /\ liveness_sessions' = UpdateOne(liveness_sessions,
                                      "session_id", proc[p].sid,
                                      CompleteLivenessUpdate)
    /\ proc' = [proc EXCEPT ![p].pc = "user"]
    /\ UNCHANGED <<kyc_sessions, users, provider>>
    /\ UNCHANGED <<Others, reqs>>

CompleteLivenessUserUpdate(session_id) ==
    Update([liveness_completed |-> "True", liveness_session_id |-> session_id], <<>>)

complete_liveness_enrollment_user(p) ==
    /\ At(p, "complete_liveness_enrollment", "user")
    /\ users' = UpsertUser(users, proc[p].uid,
                           CompleteLivenessUserUpdate(proc[p].sid))
    /\ Finish(p, proc[p].op, Ok, CompleteLivenessRouteResponse(Ok))
    /\ UNCHANGED <<kyc_sessions, liveness_sessions, provider>>
    /\ UNCHANGED <<Others, reqs>>

\* ------------------------------------------------------------------------
\* routers/webhook.py : sumsub_webhook, and the webhook handlers of the service
\* ------------------------------------------------------------------------

\* json.loads(body.decode('utf-8')) and the data.get(...) calls
JsonLoads(body) == Payload(body.externalUserId, body.reviewStatus)

\* the except clauses of sumsub_webhook: what the caller gets for an exception
\* raised inside the try block
WebhookExcept(exception) ==
    IF exception = "JSONDecodeError" THEN Response(400, "Invalid JSON payload")
    ELSE Response(500, "Webhook processing failed")

\* the branch on the reference: "liveness" in external_user_id.lower()
IsLivenessRef(external_user_id) == Contains(Lower(external_user_id), "liveness")

\* a handler that raises when the service reports a failure
WebhookResponseRaising(result) ==
    IF result.success THEN Response(200, "success")
    ELSE Response(500, "Webhook processing failed")

\* the response of sumsub_webhook for the service result
WebhookResponse(result) ==
    IF result.success THEN Response(200, "success") ELSE Response(200, "error")

\* status_map.get(review_status, "pending")
status_map_get(review_status) ==
    CASE review_status = "approved" -> "completed"
      [] review_status = "rejected" -> "failed"
      [] review_status = "pending" -> "pending"
      [] OTHER -> "pending"

\* if user_id:
Truthy(user_id) == user_id # <<>>

\* signature check, parsing, dispatch on the reference, and the find_one of
\* update_liveness_webhook_result / update_kyc_webhook_result
sumsub_webhook(p) ==
    /\ Arrive(p)
    /\ \E body \in WebhookBodies :
       \E headers \in WebhookHeaders(body) :
          LET data == JsonLoads(body)
              raise(exception) ==
                Returned("sumsub_webhook", body, headers, NoResult,
                         WebhookExcept(exception))
              find(coll, pc, error) ==
                LET i == FindOne(coll, "external_user_id", data.externalUserId)
                IN  IF i = 0
                    THEN Returned("sumsub_webhook", body, headers, Fail(error, 0),
                                  WebhookResponse(Fail(error, 0)))
                    ELSE [InFlight("sumsub_webhook", pc, 0, <<>>, i, coll[i].status)
                            EXCEPT !.body = body, !.headers = headers]
          IN  proc' = [proc EXCEPT ![p] =
                IF ~verify_webhook_signature(body, headers)
                THEN raise("HTTPException401")
                ELSE IF ~body.valid
                THEN raise("JSONDecodeError")
                ELSE IF IsLivenessRef(data.externalUserId)
                THEN find(liveness_sessions, "liveness_session", "Session not found")
                ELSE find(kyc_sessions, "kyc_session", "KYC session not found")]
    /\ UNCHANGED <<kyc_sessions, liveness_sessions, users, provider>>
    /\ UNCHANGED Others

\* a webhook write that also records the delivery as a step
KycWebhookUpdateCounting(data) ==
    Update([status |-> status_map_get(data.reviewStatus),
            verified |-> PyBool(data.reviewStatus = "approved"),
            review_status |-> data.reviewStatus,
            webhook_data |-> data], <<"webhook">>)

KycWebhookUpdate(data) ==
    Update([status |-> status_map_get(data.reviewStatus),
            verified |-> PyBool(data.reviewStatus = "approved"),
            review_status |-> data.reviewStatus,
            webhook_data |-> data], <<>>)

\* kyc_sessions.update_one({"_id": session["_id"]}, {"$set": ...})
update_kyc_webhook_result_session(p) ==
    /\ At(p, "sumsub_webhook", "kyc_session")
    /\ LET data == JsonLoads(proc[p].body)
           user_id == kyc_sessions[proc[p].found].user_id
       IN  /\ kyc_sessions' = [kyc_sessions EXCEPT
                                 ![proc[p].found] = ApplyUpdate(@, KycWebhookUpdate(data))]
           /\ IF Truthy(user_id)
              THEN proc' = [proc EXCEPT ![p].pc = "kyc_user"]
              ELSE Finish(p, proc[p].op, Ok, WebhookResponse(Ok))
    /\ UNCHANGED <<liveness_sessions, users, provider>>
    /\ UNCHANGED <<Others, reqs>>

KycWebhookUserUpdate(data) ==
    Update([kyc_completed |-> PyBool(status_map_get(data.reviewStatus) = "completed"),
            verified |-> PyBool(data.reviewStatus = "approved"),
            kyc_review_status |-> data.reviewStatus], <<>>)

update_kyc_webhook_result_user(p) ==
    /\ At(p, "sumsub_webhook", "kyc_user")
    /\ LET data == JsonLoads(proc[p].body)
           user_id == kyc_sessions[proc[p].found].user_id
       IN  users' = UpsertUser(users, user_id, KycWebhookUserUpdate(data))
    /\ Finish(p, proc[p].op, Ok, WebhookResponse(Ok))
    /\ UNCHANGED <<kyc_sessions, liveness_sessions, provider>>
    /\ UNCHANGED <<Others, reqs>>

LivenessWebhookUpdate(data) ==
    Update([status |-> status_map_get(data.reviewStatus),
            is_live |-> PyBool(data.reviewStatus = "approved"),
            review_status |-> data.reviewStatus,
            webhook_data |-> data], <<>>)

\* liveness_sessions.update_one({"_id": session["_id"]}, {"$set": ...})
update_liveness_webhook_result_session(p) ==
    /\ At(p, "sumsub_webhook", "liveness_session")
    /\ LET data == JsonLoads(proc[p].body)
           user_id == liveness_sessions[proc[p].found].user_id
       IN  /\ liveness_sessions' = [liveness_sessions EXCEPT
                                      ![proc[p].found] = ApplyUpdate(@, LivenessWebhookUpdate(data))]
           /\ IF Truthy(user_id)
              THEN proc' = [proc EXCEPT ![p].pc = "liveness_user"]
              ELSE Finish(p, proc[p].op, Ok, WebhookResponse(Ok))
    /\ UNCHANGED <<kyc_sessions, users, provider>>
    /\ UNCHANGED <<Others, reqs>>

LivenessWebhookUserUpdate(data) ==
    Update([liveness_completed |-> PyBool(status_map_get(data.reviewStatus) = "completed"),
            liveness_verified |-> PyBool(data.reviewStatus = "approved"),
            liveness_review_status |-> data.reviewStatus], <<>>)

update_liveness_webhook_result_user(p) ==
    /\ At(p, "sumsub_webhook", "liveness_user")
    /\ LET data == JsonLoads(proc[p].body)
           user_id == liveness_sessions[proc[p].found].user_id
       IN  users' = UpsertUser(users, user_id,
                               LivenessWebhookUserUpdate(data))
    /\ Finish(p, proc[p].op, Ok, WebhookResponse(Ok))
    /\ UNCHANGED <<kyc_sessions, liveness_sessions, provider>>
    /\ UNCHANGED <<Others, reqs>>

\* ------------------------------------------------------------------------
\* Spec: the handlers running concurrently
\* ------------------------------------------------------------------------

Init ==
    /\ settings \in {[SUMSUB_WEBHOOK_SECRET |-> s] : s \in WebhookSecrets}
    /\ now = 0
    /\ kyc_sessions = <<>>
    /\ liveness_sessions = <<>>
    /\ users = [u \in UserIds |-> NoUser]
    /\ provider = NoProvider
    /\ proc = [p \in Procs |-> IdleProc]
    /\ reqs = 0
    /\ vw_in = [body |-> NoBody, headers |-> NoHeaders]
    /\ vw_out = [applied |-> FALSE, value |-> FALSE, raised |-> FALSE]
    /\ img_in = <<>>
    /\ img_out = [applied |-> FALSE, ok |-> FALSE, bytes |-> <<>>]
    /\ sg = [pc |-> "off"]

\* users.find_one, liveness_sessions.find_one and kyc_sessions.find_one for a
\* user_id (GET /user/{user_id}/status, GET /liveness/status/{user_id}): the
\* answer is put together from what was read, nothing is stored
get_user_verification_status(p) ==
    /\ Arrive(p)
    /\ \E user_id \in UserIds :
          proc' = [proc EXCEPT ![p] =
                     [Returned("get_user_verification_status", proc[p].body,
                               proc[p].headers, Ok,
                               Response(200, IF users[user_id].verified = "True"
                                             THEN "verified" ELSE "not_started"))
                         EXCEPT !.uid = user_id]]
    /\ UNCHANGED <<kyc_sessions, liveness_sessions, users, provider>>
    /\ UNCHANGED Others

\* GET /liveness/result/{session_id}: service.check_liveness_status is not a
\* method of VerificationService, the call raises AttributeError and the
\* route's `except Exception` answers 500
check_liveness_result(p) ==
    /\ Arrive(p)
    /\ \E session_id \in SessionKeys :
          proc' = [proc EXCEPT ![p] =
                     [Returned("check_liveness_result", proc[p].body, proc[p].headers,
                               NoResult, Response(500, "Failed to check liveness result"))
                         EXCEPT !.sid = session_id]]
    /\ UNCHANGED <<kyc_sessions, liveness_sessions, users, provider>>
    /\ UNCHANGED Others

Next ==
    \/ \E p \in Procs : Respond(p)
    \/ \E p \in Procs : start_liveness_detection_call(p)
    \/ \E p \in Procs : start_liveness_detection_insert(p)
    \/ \E p \in Procs : process_liveness_selfie_upload(p)
    \/ \E p \in Procs : process_liveness_selfie_write(p)
    \/ \E p \in Procs : complete_liveness_enrollment_call(p)
    \/ \E p \in Procs : complete_liveness_enrollment_session(p)
    \/ \E p \in Procs : complete_liveness_enrollment_user(p)
    \/ \E p \in Procs : start_kyc_verification_call(p)
    \/ \E p \in Procs : start_kyc_verification_insert(p)
    \/ \E p \in Procs : scan_document_front_upload(p)
    \/ \E p \in Procs : scan_document_front_write(p)
    \/ \E p \in Procs : scan_document_back_upload(p)
    \/ \E p \in Procs : scan_document_back_write(p)
    \/ \E p \in Procs : verify_kyc_selfie_upload(p)
    \/ \E p \in Procs : verify_kyc_selfie_write(p)
    \/ \E p \in Procs : check_kyc_verification_status(p)
    \/ \E p \in Procs : get_user_verification_status(p)
    \/ \E p \in Procs : check_liveness_result(p)
    \/ \E p \in Procs : complete_kyc_verification_call(p)
    \/ \E p \in Procs : complete_kyc_verification_session(p)
    \/ \E p \in Procs : complete_kyc_verification_user(p)
    \/ \E p \in Procs : sumsub_webhook(p)
    \/ \E p \in Procs : update_kyc_webhook_result_session(p)
    \/ \E p \in Procs : update_kyc_webhook_result_user(p)
    \/ \E p \in Procs : update_liveness_webhook_result_session(p)
    \/ \E p \in Procs : update_liveness_webhook_result_user(p)

Spec == Init /\ [][Next]_vars

\* the event loop runs every handler that has started until it returns;
\* whether another request arrives is up to the callers
SpecFair == Spec /\ WF_vars(Next /\ reqs' = reqs)

\* ------------------------------------------------------------------------
\* SpecSig: verify_webhook_signature applied to enumerated requests
\* ------------------------------------------------------------------------

SigSecrets == {<<>>, <<" ">>, <<"s", "k">>, <<"s", "k", " ">>}

SigBodies ==
    {JsonBody(UnknownRef, "approved", "compact"),
     JsonBody(UnknownRef, "approved", "spaced"), NotJsonBody}

SigHashes == {"sha256", "sha512", "sha1"}

SigAlgHeaders ==
    {"HMAC_SHA256_HEX", "HMAC_SHA512_HEX", "HMAC_SHA1_HEX", "hmac_sha256_hex",
     "HMAC_MD5_HEX", ""}

\* digest header values: hexadecimal digests in both cases, and other text
SigDigests(secret) ==
    {HexDigest(HmacNew(k, b, h)) :
        k \in {secret, Strip(secret), <<"guess">>}, b \in SigBodies, h \in SigHashes}
    \cup {HexUpper(HmacNew(Strip(secret), b, h)) : b \in SigBodies, h \in SigHashes}
    \cup {EmptyText, NonAsciiText}

SigHeaders(secret) ==
    {[present |-> P, x_payload_digest |-> d, x_payload_digest_alg |-> a] :
        P \in {{"x_payload_digest", "x_payload_digest_alg"}, {"x_payload_digest"}},
        d \in SigDigests(secret), a \in SigAlgHeaders}
    \cup {[present |-> P, x_payload_digest |-> EmptyText, x_payload_digest_alg |-> a] :
        P \in {{"x_payload_digest_alg"}}, a \in SigAlgHeaders}
    \cup {NoHeaders}

NotDecoded == [applied |-> FALSE, ok |-> FALSE, bytes |-> <<>>]
NotApplied == [applied |-> FALSE, value |-> FALSE, raised |-> FALSE]

InitSig ==
    /\ settings \in {[SUMSUB_WEBHOOK_SECRET |-> s] : s \in SigSecrets}
    /\ now = 0
    /\ kyc_sessions = <<>>
    /\ liveness_sessions = <<>>
    /\ users = [u \in UserIds |-> NoUser]
    /\ provider = NoProvider
    /\ proc = [p \in Procs |-> IdleProc]
    /\ reqs = 0
    /\ vw_in \in {[body |-> b, headers |-> h] :
                    b \in SigBodies, h \in SigHeaders(settings.SUMSUB_WEBHOOK_SECRET)}
    /\ vw_out = NotApplied
    /\ img_in = <<>>
    /\ img_out = NotDecoded
    /\ sg = [pc |-> "off"]

\* verify_webhook_signature(body, headers_dict) is called
ApplyVerify ==
    /\ ~vw_out.applied
    /\ vw_out' = [applied |-> TRUE] @@
                 verify_webhook_signature_outcome(vw_in.body, vw_in.headers,
                                                  settings.SUMSUB_WEBHOOK_SECRET)
    /\ UNCHANGED <<settings, now, kyc_sessions, liveness_sessions, users, provider,
                   proc, reqs, vw_in, img_in, img_out, sg>>

NextSig == ApplyVerify

SpecSig == InitSig /\ [][NextSig]_vars

\* ------------------------------------------------------------------------
\* SpecImage: the decoding block of the submission steps on enumerated buffers
\* ------------------------------------------------------------------------
MaxBytes == 3           \* longest byte buffer

ByteValues == {0, 1, 77, 128, 255}

ByteBuffers == UNION {[1..n -> ByteValues] : n \in 0..MaxBytes}

\* standard base64 of a byte buffer, with its padding
RECURSIVE B64Encode(_)
B64Encode(b) ==
    IF Len(b) = 0 THEN <<>>
    ELSE IF Len(b) = 1
    THEN <<B64Alphabet[b[1] \div 4 + 1], B64Alphabet[(b[1] % 4) * 16 + 1], "=", "=">>
    ELSE IF Len(b) = 2
    THEN <<B64Alphabet[b[1] \div 4 + 1],
           B64Alphabet[(b[1] % 4) * 16 + b[2] \div 16 + 1],
           B64Alphabet[(b[2] % 16) * 4 + 1], "=">>
    ELSE <<B64Alphabet[b[1] \div 4 + 1],
           B64Alphabet[(b[1] % 4) * 16 + b[2] \div 16 + 1],
           B64Alphabet[(b[2] % 16) * 4 + b[3] \div 64 + 1],
           B64Alphabet[(b[3] % 64) + 1]>> \o B64Encode(SubSeq(b, 4, Len(b)))

\* s without its trailing '=' characters
StripPadding(s) == SelectSeq(s, IsB64Char)

InitImage ==
    /\ settings \in {[SUMSUB_WEBHOOK_SECRET |-> s] : s \in WebhookSecrets}
    /\ now = 0
    /\ kyc_sessions = <<>>
    /\ liveness_sessions = <<>>
    /\ users = [u \in UserIds |-> NoUser]
    /\ provider = NoProvider
    /\ proc = [p \in Procs |-> IdleProc]
    /\ reqs = 0
    /\ vw_in = [body |-> NoBody, headers |-> NoHeaders]
    /\ vw_out = NotApplied
    /\ img_in \in ByteBuffers
    /\ img_out = NotDecoded
    /\ sg = [pc |-> "off"]

\* a submission step is given the encoding of img_in without its padding
ApplyDecode ==
    /\ ~img_out.applied
    /\ img_out' = [applied |-> TRUE] @@ DecodeImage(StripPadding(B64Encode(img_in)))
    /\ UNCHANGED <<settings, now, kyc_sessions, liveness_sessions, users, provider,
                   proc, reqs, vw_in, vw_out, img_in, sg>>

NextImage == ApplyDecode

SpecImage == InitImage /\ [][NextImage]_vars

\* ------------------------------------------------------------------------
\* SpecSign: a multipart upload is serialized, signed and sent, and
\* _sign_request is applied to two bodies
\* ------------------------------------------------------------------------
UploadFns == {"add_liveness_selfie", "scan_document_front", "scan_document_back",
              "verify_kyc_selfie"}

UploadImages == {<<"b1">>, <<"b1", "b2">>}

\* the boundary markers req.prepare() can draw
Boundaries == {"x1", "x2"}

\* self.secret_key
secret_key == <<"s", "k">>

\* f'/resources/applicants/{applicant_id}/info/idDoc'
UploadPath == <<"/resources/applicants/", "1", "/info/idDoc">>

\* prepared.body of requests.Request('POST', full_url, files=files, data=data):
\* the metadata part and the content part, each behind the boundary marker
Multipart(fn, boundary, image) ==
    <<"--", boundary, "metadata", fn, "--", boundary, "content">>
       \o image \o <<"--", boundary, "--">>

\* str(now) + method.upper() + path_url + body
DataToSign(ts, method, path_url, body) == <<ToString(ts), method>> \o path_url \o body

\* a signature over the timestamp, method and path only
sign_request_without_body(ts, method, path_url, body) ==
    HexDigest(HmacNew(secret_key, DataToSign(ts, method, path_url, <<>>), "sha256"))

\* hmac.new(self.secret_key.encode('utf-8'), data_to_sign, hashlib.sha256).hexdigest()
sign_request(ts, method, path_url, body) ==
    HexDigest(HmacNew(secret_key, DataToSign(ts, method, path_url, body), "sha256"))

\* bodies _sign_request is applied to: none, a JSON body, two serializations of
\* one upload that differ in the boundary only
SignBodies ==
    {<<>>, <<"{", "externalUserId", "}">>}
       \cup {Multipart("scan_document_front", b, <<"b1">>) : b \in Boundaries}

NoBytes == <<>>

InitSign ==
    /\ settings \in {[SUMSUB_WEBHOOK_SECRET |-> s] : s \in WebhookSecrets}
    /\ now \in 0..MaxClock
    /\ kyc_sessions = <<>>
    /\ liveness_sessions = <<>>
    /\ users = [u \in UserIds |-> NoUser]
    /\ provider = NoProvider
    /\ proc = [p \in Procs |-> IdleProc]
    /\ reqs = 0
    /\ vw_in = [body |-> NoBody, headers |-> NoHeaders]
    /\ vw_out = NotApplied
    /\ img_in = <<>>
    /\ img_out = NotDecoded
    /\ sg \in {[pc |-> "start", fn |-> f, image |-> i, a |-> a, b |-> b,
                 body |-> NoBytes, data_to_sign |-> NoBytes, sent |-> NoBytes,
                 signature |-> HexDigest(HmacNew(<<>>, <<>>, "none")),
                 sig_a |-> HexDigest(HmacNew(<<>>, <<>>, "none")),
                 sig_b |-> HexDigest(HmacNew(<<>>, <<>>, "none"))] :
                    f \in UploadFns, i \in UploadImages, a \in SignBodies,
                    b \in SignBodies}

\* req.prepare(): the body is serialized, with a boundary drawn at random
Prepare ==
    /\ sg.pc = "start"
    /\ \E boundary \in Boundaries :
          sg' = [sg EXCEPT !.pc = "prepared",
                           !.body = Multipart(sg.fn, boundary, sg.image)]
    /\ UNCHANGED <<settings, now, kyc_sessions, liveness_sessions, users, provider,
                   proc, reqs, vw_in, vw_out, img_in, img_out>>

\* now = int(time.time()); data_to_sign and signature over prepared.body
SignPrepared ==
    /\ sg.pc = "prepared"
    /\ sg' = [sg EXCEPT !.pc = "signed",
                        !.data_to_sign = DataToSign(now, "POST", UploadPath, sg.body),
                        !.signature = sign_request(now, "POST", UploadPath, sg.body)]
    /\ UNCHANGED <<settings, now, kyc_sessions, liveness_sessions, users, provider,
                   proc, reqs, vw_in, vw_out, img_in, img_out>>

\* a send that serializes the request again
SendReserialized ==
    /\ sg.pc = "signed"
    /\ \E boundary \in Boundaries :
          sg' = [sg EXCEPT !.pc = "sent",
                           !.sent = Multipart(sg.fn, boundary, sg.image)]
    /\ UNCHANGED <<settings, now, kyc_sessions, liveness_sessions, users, provider,
                   proc, reqs, vw_in, vw_out, img_in, img_out>>

\* session.send(prepared): the prepared body goes out as it is
Send ==
    /\ sg.pc = "signed"
    /\ sg' = [sg EXCEPT !.pc = "sent", !.sent = sg.body]
    /\ UNCHANGED <<settings, now, kyc_sessions, liveness_sessions, users, provider,
                   proc, reqs, vw_in, vw_out, img_in, img_out>>

\* self._sign_request('POST', path, body) for the bodies a and b, at one
\* timestamp
ApplySignRequest ==
    /\ sg.pc = "start"
    /\ sg' = [sg EXCEPT !.pc = "pair",
                        !.sig_a = sign_request(now, "POST", UploadPath, sg.a),
                        !.sig_b = sign_request(now, "POST", UploadPath, sg.b)]
    /\ UNCHANGED <<settings, now, kyc_sessions, liveness_sessions, users, provider,
                   proc, reqs, vw_in, vw_out, img_in, img_out>>

NextSign == Prepare \/ SignPrepared \/ Send \/ ApplySignRequest

SpecSign == InitSign /\ [][NextSign]_vars

\* ------------------------------------------------------------------------
\* Properties
\* ------------------------------------------------------------------------

Terminal(status) == status \in {"completed", "failed"}

SubmissionOps ==
    {"process_liveness_selfie", "scan_document_front", "scan_document_back",
     "verify_kyc_selfie"}

\* handler p takes the step
Steps(p) == proc'[p] # proc[p]

\* the digest named by the algorithm header (HMAC_SHA256_HEX when there is none)
SelectedHash(headers) ==
    LET alg == Upper(IF "x_payload_digest_alg" \in headers.present
                     THEN headers.x_payload_digest_alg ELSE "HMAC_SHA256_HEX")
    IN  CASE alg = "HMAC_SHA256_HEX" -> "sha256"
          [] alg = "HMAC_SHA512_HEX" -> "sha512"
          [] alg = "HMAC_SHA1_HEX" -> "sha1"
          [] OTHER -> "None"

\* the digest header is the lowercase hex HMAC of the raw body under key
ValidSignature(body, headers, key) ==
    /\ "x_payload_digest" \in headers.present
    /\ SelectedHash(headers) # "None"
    /\ headers.x_payload_digest = HexDigest(HmacNew(key, body, SelectedHash(headers)))

WebhookSecret == settings.SUMSUB_WEBHOOK_SECRET

\* the request's signature verifies under the configured secret
Verifies(body, headers) ==
    Strip(WebhookSecret) # <<>> /\ ValidSignature(body, headers, Strip(WebhookSecret))

\* C1: once a session's status is completed or failed, no step sets it back
\* to a non-terminal value.
C1_TerminalStatusSticky ==
    [][/\ \A i \in 1..Len(kyc_sessions) :
             Terminal(kyc_sessions[i].status) => Terminal(kyc_sessions'[i].status)
       /\ \A i \in 1..Len(liveness_sessions) :
             Terminal(liveness_sessions[i].status)
                => Terminal(liveness_sessions'[i].status)]_vars

\* C2: a step of the webhook handler does not change the status of a session
\* whose status is terminal.
C2_WebhookKeepsTerminalStatus ==
    [][\A p \in Procs :
          (proc[p].op = "sumsub_webhook" /\ Steps(p))
          => /\ \A i \in 1..Len(kyc_sessions) :
                   Terminal(kyc_sessions[i].status)
                      => kyc_sessions'[i].status = kyc_sessions[i].status
             /\ \A i \in 1..Len(liveness_sessions) :
                   Terminal(liveness_sessions[i].status)
                      => liveness_sessions'[i].status = liveness_sessions[i].status]_vars

\* C3: when a webhook has closed a session (failed, verdict false) after a
\* complete call read it, the complete call's session write leaves the status
\* failed and the verdict false.
C3_CompleteDoesNotReopen ==
    [][\A p \in Procs :
          (proc[p].pc = "session" /\ Steps(p) /\ proc[p].seen # "failed")
          => /\ (/\ proc[p].op = "complete_kyc_verification"
                 /\ kyc_sessions[proc[p].found].status = "failed"
                 /\ kyc_sessions[proc[p].found].verified = "False")
                => /\ kyc_sessions'[proc[p].found].status = "failed"
                   /\ kyc_sessions'[proc[p].found].verified = "False"
             /\ (/\ proc[p].op = "complete_liveness_enrollment"
                 /\ liveness_sessions[proc[p].found].status = "failed"
                 /\ liveness_sessions[proc[p].found].is_live = "False")
                => /\ liveness_sessions'[proc[p].found].status = "failed"
                   /\ liveness_sessions'[proc[p].found].is_live = "False"]_vars

\* C4: a submission step that finds its session in a terminal status uploads
\* nothing to the provider and leaves the session documents unchanged.
C4_TerminalSessionNotHonored ==
    [][\A p \in Procs :
          /\ (/\ Steps(p) /\ proc'[p].op \in SubmissionOps
              /\ proc'[p].pc = "write" /\ Terminal(proc'[p].seen))
             => provider'.uploads = provider.uploads
          /\ (/\ Steps(p) /\ proc[p].op \in SubmissionOps
              /\ proc[p].pc = "write" /\ Terminal(proc[p].seen))
             => UNCHANGED <<kyc_sessions, liveness_sessions>>]_vars

\* C5: a session's verdict flag is true only if its status is completed and
\* its review_status is approved.
C5_VerdictOnlyWhenApproved ==
    /\ \A i \in 1..Len(kyc_sessions) :
          kyc_sessions[i].verified = "True"
             => /\ kyc_sessions[i].status = "completed"
                /\ kyc_sessions[i].review_status = "approved"
    /\ \A i \in 1..Len(liveness_sessions) :
          liveness_sessions[i].is_live = "True"
             => /\ liveness_sessions[i].status = "completed"
                /\ liveness_sessions[i].review_status = "approved"

\* C6: when the handler returns for a webhook with a valid signature,
\* reviewStatus approved and a reference that a KYC session carries, that
\* session is completed and verified and its user's record is verified.
C6_ApprovedWebhookCompletesKyc ==
    \A p \in Procs :
       (/\ proc[p].pc = "done" /\ proc[p].op = "sumsub_webhook"
        /\ Verifies(proc[p].body, proc[p].headers)
        /\ proc[p].body.valid /\ proc[p].body.reviewStatus = "approved"
        /\ \E i \in 1..Len(kyc_sessions) :
              kyc_sessions[i].external_user_id = proc[p].body.externalUserId)
       => \E i \in 1..Len(kyc_sessions) :
             /\ kyc_sessions[i].external_user_id = proc[p].body.externalUserId
             /\ kyc_sessions[i].status = "completed"
             /\ kyc_sessions[i].verified = "True"
             /\ users[kyc_sessions[i].user_id].verified = "True"

\* C7: no step of the handler of a webhook whose signature does not verify
\* changes a liveness session, a KYC session or a user status record.
C7_BadSignatureNoMutation ==
    [][\A p \in Procs :
          (/\ Steps(p) /\ proc'[p].op = "sumsub_webhook"
           /\ ~Verifies(proc'[p].body, proc'[p].headers))
          => UNCHANGED <<kyc_sessions, liveness_sessions, users>>]_vars

\* C7 witness: a forged "approved" webhook for a stored KYC session was
\* handled and the session is still initiated.
C7_Witness ==
    \E p \in Procs :
       /\ proc[p].pc = "done" /\ proc[p].op = "sumsub_webhook"
       /\ proc[p].headers = ForgedHeaders(proc[p].body)
       /\ proc[p].body.valid /\ proc[p].body.reviewStatus = "approved"
       /\ proc[p].response.code # 200
       /\ \E i \in 1..Len(kyc_sessions) :
             /\ kyc_sessions[i].external_user_id = proc[p].body.externalUserId
             /\ ~IsLivenessRef(kyc_sessions[i].external_user_id)
             /\ kyc_sessions[i].status = "initiated"

\* C8: a webhook whose signature does not verify is answered 401.
C8_BadSignatureAnswered401 ==
    \A p \in Procs :
       (/\ proc[p].pc = "done" /\ proc[p].op = "sumsub_webhook"
        /\ ~Verifies(proc[p].body, proc[p].headers))
       => proc[p].response.code = 401

\* C9 as stated: verify_webhook_signature returns true exactly when the digest
\* header is the lowercase hex HMAC of the raw body under the configured
\* secret with the digest the algorithm header selects.
C9_TrueIffHmacUnderConfiguredSecret ==
    vw_out.applied
       => (vw_out.value <=> ValidSignature(vw_in.body, vw_in.headers, WebhookSecret))

\* C9 amended: it returns true exactly when the configured secret, stripped of
\* surrounding whitespace, is not empty and the digest header is the lowercase
\* hex HMAC of the raw body under that stripped secret with the digest the
\* algorithm header selects (upper-cased; SHA-256 when there is no header).
C9_TrueIffHmacUnderStrippedSecret ==
    vw_out.applied => (vw_out.value <=> Verifies(vw_in.body, vw_in.headers))

\* C9 witness: a digest under a secret configured with trailing whitespace is accepted.
C9_Witness ==
    /\ vw_out.applied /\ vw_out.value
    /\ WebhookSecret = <<"s", "k", " ">>
    /\ SelectedHash(vw_in.headers) = "sha512"
    /\ vw_in.body.fmt = "spaced"

\* C10: with the digest header missing, the secret empty or the algorithm not
\* supported, verify_webhook_signature returns false; it never raises.
C10_FailsClosed ==
    vw_out.applied
       => /\ ~vw_out.raised
          /\ (\/ "x_payload_digest" \notin vw_in.headers.present
              \/ vw_in.headers.x_payload_digest = EmptyText
              \/ Strip(WebhookSecret) = <<>>
              \/ SelectedHash(vw_in.headers) = "None")
             => ~vw_out.value

\* C10 witness: a digest that is valid for SHA-256 sent with an unsupported
\* algorithm name is refused.
C10_Witness ==
    /\ vw_out.applied /\ ~vw_out.value /\ ~vw_out.raised
    /\ Strip(WebhookSecret) # <<>>
    /\ "x_payload_digest_alg" \in vw_in.headers.present
    /\ vw_in.headers.x_payload_digest_alg = "HMAC_MD5_HEX"
    /\ vw_in.headers.x_payload_digest
          = HexDigest(HmacNew(Strip(WebhookSecret), vw_in.body, "sha256"))

\* the stored sessions, of either collection, that carry the reference
SessionsWithRef(ext) ==
    {i \in 1..Len(kyc_sessions) : kyc_sessions[i].external_user_id = ext}
    \cup {-i : i \in {j \in 1..Len(liveness_sessions) :
                         liveness_sessions[j].external_user_id = ext}}

\* C11: a correctly signed webhook whose externalUserId no stored session
\* carries is answered 200 with an error-status body in the step that receives
\* it, and that step leaves the sessions and the user records unchanged.
C11_UnknownRefSoftFailure ==
    [][\A p \in Procs :
          (/\ Steps(p) /\ proc[p].pc = "idle" /\ proc'[p].op = "sumsub_webhook"
           /\ Verifies(proc'[p].body, proc'[p].headers)
           /\ proc'[p].body.valid
           /\ SessionsWithRef(proc'[p].body.externalUserId) = {})
          => /\ proc'[p].pc = "done"
             /\ proc'[p].response = Response(200, "error")
             /\ ~proc'[p].result.success
             /\ UNCHANGED <<kyc_sessions, liveness_sessions, users>>]_vars

\* C11 witness: a signed "approved" webhook for a reference of no session was
\* answered 200/error while a session of another reference is stored.
C11_Witness ==
    \E p \in Procs :
       /\ proc[p].pc = "done" /\ proc[p].op = "sumsub_webhook"
       /\ Verifies(proc[p].body, proc[p].headers)
       /\ proc[p].body.valid /\ proc[p].body.reviewStatus = "approved"
       /\ SessionsWithRef(proc[p].body.externalUserId) = {}
       /\ proc[p].response = Response(200, "error")
       /\ Len(kyc_sessions) > 0
       /\ \A i \in 1..Len(kyc_sessions) : kyc_sessions[i].status = "initiated"

\* C12: a step of the handler of a webhook whose reviewStatus is neither
\* approved nor rejected leaves the status of every stored session as it was.
C12_PendingWebhookKeepsStatus ==
    [][\A p \in Procs :
          (/\ Steps(p) /\ proc'[p].op = "sumsub_webhook"
           /\ proc'[p].body.valid
           /\ proc'[p].body.reviewStatus \notin {"approved", "rejected"})
          => /\ \A i \in 1..Len(kyc_sessions) :
                   kyc_sessions'[i].status = kyc_sessions[i].status
             /\ \A i \in 1..Len(liveness_sessions) :
                   liveness_sessions'[i].status = liveness_sessions[i].status]_vars

\* number of times tag occurs in steps
Occurrences(steps, tag) == Cardinality({k \in 1..Len(steps) : steps[k] = tag})

\* the order of the phases a status field can hold
PhaseRank(status) ==
    CASE status = "initiated" -> 0
      [] status = "pending" -> 1
      [] OTHER -> 2

\* C13: no step of scan_document_front moves a session's status backward, and
\* after every step each KYC session has at most as many document_front
\* entries as front uploads the provider accepted for it.
C13_FrontResubmission ==
    [][/\ \A p \in Procs :
             (Steps(p) /\ "scan_document_front" \in {proc[p].op, proc'[p].op})
             => \A i \in 1..Len(kyc_sessions) :
                   PhaseRank(kyc_sessions'[i].status) >= PhaseRank(kyc_sessions[i].status)
       /\ \A i \in 1..Len(kyc_sessions') :
             Occurrences(kyc_sessions'[i].steps_completed, "document_front")
                <= provider'.uploads[kyc_sessions'[i].kyc_session_id].FRONT_SIDE]_vars

\* C13 witness: the front was submitted again after a first success and both
\* submissions were recorded.
C13_Witness ==
    \E i \in 1..Len(kyc_sessions) :
       /\ Occurrences(kyc_sessions[i].steps_completed, "document_front") = 2
       /\ provider.uploads[kyc_sessions[i].kyc_session_id].FRONT_SIDE = 2
       /\ \E p \in Procs : proc[p].pc = "done" /\ proc[p].op = "scan_document_front"
                           /\ proc[p].response.code = 200

\* C14: after every step the steps_completed of each KYC session holds no tag
\* twice and has its contents before the step as a prefix.
C14_StepsAppendOnlySet ==
    [][\A i \in 1..Len(kyc_sessions') :
          LET after == kyc_sessions'[i].steps_completed
          IN  /\ \A k, l \in 1..Len(after) : after[k] = after[l] => k = l
              /\ i <= Len(kyc_sessions)
                 => LET before == kyc_sessions[i].steps_completed
                    IN  /\ Len(before) <= Len(after)
                        /\ SubSeq(after, 1, Len(before)) = before]_vars

\* the session document was created for the provider's applicant of that id
KeyOfApplicant(pr, key, ext) ==
    /\ key \in 1..Len(pr.applicants)
    /\ pr.applicants[key].id = key
    /\ pr.applicants[key].externalUserId = ext

\* C15: after every step each stored session's key is the id of the applicant
\* the provider created for it, and no step changes the key of a stored session.
C15_SessionKeyIsApplicantId ==
    [][/\ \A i \in 1..Len(kyc_sessions') :
             /\ KeyOfApplicant(provider', kyc_sessions'[i].kyc_session_id,
                               kyc_sessions'[i].external_user_id)
             /\ i <= Len(kyc_sessions)
                => kyc_sessions'[i].kyc_session_id = kyc_sessions[i].kyc_session_id
       /\ \A i \in 1..Len(liveness_sessions') :
             /\ KeyOfApplicant(provider', liveness_sessions'[i].session_id,
                               liveness_sessions'[i].external_user_id)
             /\ i <= Len(liveness_sessions)
                => liveness_sessions'[i].session_id = liveness_sessions[i].session_id]_vars

\* C15 witness: the second applicant's KYC session was closed by a webhook and
\* still has the applicant's id as its key.
C15_Witness ==
    \E i \in 1..Len(kyc_sessions) :
       /\ kyc_sessions[i].kyc_session_id = 2
       /\ kyc_sessions[i].review_status = "approved"
       /\ kyc_sessions[i].status = "completed"
       /\ Len(liveness_sessions) = 1

\* C16: no collection holds two session documents with the same key.
C16_OneDocumentPerKey ==
    /\ \A i, j \in 1..Len(kyc_sessions) :
          kyc_sessions[i].kyc_session_id = kyc_sessions[j].kyc_session_id => i = j
    /\ \A i, j \in 1..Len(liveness_sessions) :
          liveness_sessions[i].session_id = liveness_sessions[j].session_id => i = j

\* C16 witness: two starts for the same user in the same second stored two
\* KYC sessions.
C16_Witness ==
    /\ Len(kyc_sessions) = 2
    /\ kyc_sessions[1].user_id = kyc_sessions[2].user_id
    /\ kyc_sessions[1].external_user_id = kyc_sessions[2].external_user_id

StartOps == {"start_liveness_detection", "start_kyc_verification"}

\* the collection a start operation inserts into
StartCollection(op, kyc, liveness) ==
    IF op = "start_kyc_verification" THEN kyc ELSE liveness

\* the key of a session document of that collection
StartKey(op, d) == IF op = "start_kyc_verification" THEN d.kyc_session_id ELSE d.session_id

\* C17: a start call whose create-applicant request is answered 201 goes on to
\* insert one session with the new applicant's id as key and status initiated;
\* a start call answered otherwise returns an error result and inserts
\* nothing; and no other step inserts a session.
C17_StartInsertsIffCreated ==
    [][/\ \A p \in Procs :
             (Steps(p) /\ proc[p].pc = "idle" /\ proc'[p].op \in StartOps)
             => /\ UNCHANGED <<kyc_sessions, liveness_sessions>>
                /\ IF Len(provider'.applicants) = Len(provider.applicants) + 1
                   THEN /\ proc'[p].pc = "insert"
                        /\ proc'[p].sid = Len(provider'.applicants)
                   ELSE /\ provider' = provider
                        /\ proc'[p].pc = "done"
                        /\ ~proc'[p].result.success
       /\ \A p \in Procs :
             (Steps(p) /\ proc[p].pc = "insert" /\ proc[p].op \in StartOps)
             => LET before == StartCollection(proc[p].op, kyc_sessions, liveness_sessions)
                    after == StartCollection(proc[p].op, kyc_sessions', liveness_sessions')
                IN  /\ Len(after) = Len(before) + 1
                    /\ SubSeq(after, 1, Len(before)) = before
                    /\ StartKey(proc[p].op, after[Len(after)]) = proc[p].sid
                    /\ after[Len(after)].status = "initiated"
                    /\ proc'[p].result.success
       /\ (Len(kyc_sessions') # Len(kyc_sessions)
           \/ Len(liveness_sessions') # Len(liveness_sessions))
          => \E p \in Procs :
                Steps(p) /\ proc[p].pc = "insert" /\ proc[p].op \in StartOps]_vars

\* C17 witness: the second request was a liveness start answered 201, and its
\* session is stored with the new applicant's id as key.
C17_Witness ==
    /\ \E p \in Procs :
          /\ proc[p].pc = "done" /\ proc[p].op = "start_liveness_detection"
          /\ proc[p].result.success
    /\ Len(liveness_sessions) = 1
    /\ liveness_sessions[1].session_id = Len(provider.applicants)
    /\ liveness_sessions[1].status = "initiated"
    /\ reqs = 2

CompleteOps == {"complete_kyc_verification", "complete_liveness_enrollment"}

\* C18: a write of a complete call sets the session's verdict flag, or the
\* user record's verified flag, to true only when the verdict fetched from the
\* provider is approved.
C18_CompleteProjectsVerdict ==
    [][\A p \in Procs :
          (Steps(p) /\ proc[p].op \in CompleteOps /\ proc[p].fetched # "approved")
          => /\ (proc[p].op = "complete_kyc_verification" /\ proc[p].pc = "session")
                => kyc_sessions'[proc[p].found].verified # "True"
             /\ (proc[p].op = "complete_liveness_enrollment" /\ proc[p].pc = "session")
                => liveness_sessions'[proc[p].found].is_live # "True"
             /\ (proc[p].op = "complete_kyc_verification" /\ proc[p].pc = "user")
                => users'[proc[p].uid].verified # "True"]_vars

\* the phase a session is in after a submission step, and the tag of the step
SubmittedPhase(op) ==
    CASE op = "scan_document_front" -> "front_submitted"
      [] op = "scan_document_back" -> "back_submitted"
      [] OTHER -> "selfie_submitted"

StepTag(op) ==
    CASE op = "scan_document_front" -> "document_front"
      [] op = "scan_document_back" -> "document_back"
      [] OTHER -> "selfie"

\* C19: the session write of a successful submission step leaves the session
\* in the phase of that step, and a KYC step appends its tag to steps_completed.
C19_SubmissionAdvancesPhase ==
    [][\A p \in Procs :
          (/\ Steps(p) /\ proc[p].op \in SubmissionOps /\ proc[p].pc = "write"
           /\ proc'[p].result.success)
          => IF proc[p].op = "process_liveness_selfie"
             THEN liveness_sessions'[proc[p].found].status = SubmittedPhase(proc[p].op)
             ELSE /\ kyc_sessions'[proc[p].found].status = SubmittedPhase(proc[p].op)
                  /\ kyc_sessions'[proc[p].found].steps_completed
                        = Append(kyc_sessions[proc[p].found].steps_completed,
                                 StepTag(proc[p].op))]_vars

\* the steps that name a stored session: every operation but the two starts
StepOps == SubmissionOps \cup CompleteOps \cup {"check_kyc_verification_status"}

LivenessOps == {"process_liveness_selfie", "complete_liveness_enrollment"}

NamesStoredSession(op, sid) ==
    IF op \in LivenessOps
    THEN \E i \in 1..Len(liveness_sessions) : liveness_sessions[i].session_id = sid
    ELSE \E i \in 1..Len(kyc_sessions) : kyc_sessions[i].kyc_session_id = sid

\* C20: a step other than a start whose session key names no stored session
\* returns at once with a session-not-found error: no provider call is made
\* (no upload is accepted, no verdict is fetched, no later part of the step is
\* pending) and no session or user record changes.
C20_UnknownSessionRefused ==
    [][\A p \in Procs :
          (/\ Steps(p) /\ proc[p].pc = "idle" /\ proc'[p].op \in StepOps
           /\ ~NamesStoredSession(proc'[p].op, proc'[p].sid))
          => /\ proc'[p].pc = "done"
             /\ ~proc'[p].result.success
             /\ proc'[p].result.error \in {"KYC session not found", "Session not found"}
             /\ proc'[p].response.code # 200
             /\ proc'[p].fetched = "none"
             /\ provider' = provider
             /\ UNCHANGED <<kyc_sessions, liveness_sessions, users>>]_vars

\* a submission step was refused for a key that names a session of the other
\* collection, while its own collection holds a session
C20_Witness ==
    \E p \in Procs :
        /\ proc[p].pc = "done" /\ proc[p].op = "scan_document_front"
        /\ proc[p].result.error = "KYC session not found"
        /\ Len(kyc_sessions) > 0
        /\ \E i \in 1..Len(liveness_sessions) :
              liveness_sessions[i].session_id = proc[p].sid

\* the errors a step returns when its provider call failed: a non-success
\* status, or a transport failure or timeout caught in the provider client
ProviderErrors == {"Sumsub API Error", "Exception", "response.text"}

\* C21: a step whose provider call failed returns an error result (it does not
\* raise: the result carries the error) and leaves every session and user
\* record as it was.
C21_ProviderFailureLeavesState ==
    [][\A p \in Procs :
          (/\ Steps(p) /\ proc'[p].op \in StepOps /\ proc'[p].pc = "done"
           /\ proc'[p].result.error \in ProviderErrors)
          => /\ proc[p].pc = "idle"
             /\ ~proc'[p].result.success
             /\ proc'[p].result # NoResult
             /\ UNCHANGED <<kyc_sessions, liveness_sessions, users>>]_vars

\* the provider accepted a front upload whose answer was lost: the step
\* returned an error and the stored session does not record the upload
C21_Witness ==
    \E p \in Procs :
        /\ proc[p].pc = "done" /\ proc[p].op = "scan_document_front"
        /\ proc[p].result.error = "Exception"
        /\ provider.uploads[proc[p].sid]["FRONT_SIDE"] > 0
        /\ \E i \in 1..Len(kyc_sessions) :
              /\ kyc_sessions[i].kyc_session_id = proc[p].sid
              /\ kyc_sessions[i].document_front_added = Absent
              /\ kyc_sessions[i].steps_completed = <<>>

\* C22: the session write of a submission step leaves status, review_status and
\* the verdict flag (verified, is_live) of the session as they were, and the
\* session write of a webhook leaves steps_completed and the per-step fields
\* as they were.
C22_WritesArePartial ==
    [][\A p \in Procs :
          /\ (Steps(p) /\ proc[p].op \in SubmissionOps /\ proc[p].pc = "write")
             => /\ \A i \in 1..Len(kyc_sessions) :
                      /\ kyc_sessions'[i].status = kyc_sessions[i].status
                      /\ kyc_sessions'[i].review_status = kyc_sessions[i].review_status
                      /\ kyc_sessions'[i].verified = kyc_sessions[i].verified
                /\ \A i \in 1..Len(liveness_sessions) :
                      /\ liveness_sessions'[i].status = liveness_sessions[i].status
                      /\ liveness_sessions'[i].review_status
                            = liveness_sessions[i].review_status
                      /\ liveness_sessions'[i].is_live = liveness_sessions[i].is_live
          /\ (Steps(p) /\ proc[p].op = "sumsub_webhook")
             => /\ \A i \in 1..Len(kyc_sessions) :
                      /\ kyc_sessions'[i].steps_completed = kyc_sessions[i].steps_completed
                      /\ kyc_sessions'[i].document_front_added
                            = kyc_sessions[i].document_front_added
                      /\ kyc_sessions'[i].document_back_added
                            = kyc_sessions[i].document_back_added
                      /\ kyc_sessions'[i].selfie_added = kyc_sessions[i].selfie_added
                      /\ kyc_sessions'[i].document_type = kyc_sessions[i].document_type
                      /\ kyc_sessions'[i].country = kyc_sessions[i].country
                /\ \A i \in 1..Len(liveness_sessions) :
                      liveness_sessions'[i].selfie_added = liveness_sessions[i].selfie_added]_vars

\* the fields of a KYC session an operation's session write produces
Produces(op) ==
    CASE op = "scan_document_front" -> {"document_front_added", "document_type", "country"}
      [] op = "scan_document_back" -> {"document_back_added", "document_type", "country"}
      [] op = "verify_kyc_selfie" -> {"selfie_added", "matches_document", "face_match_score"}
      [] op = "sumsub_webhook" -> {"status", "verified", "review_status", "webhook_data"}
      [] OTHER -> {}

StepFlag(op) ==
    CASE op = "scan_document_front" -> "document_front_added"
      [] op = "scan_document_back" -> "document_back_added"
      [] OTHER -> "selfie_added"

KycSubmissionOps == SubmissionOps \ {"process_liveness_selfie"}

\* a process between its provider call (or lookup) and its session write
WritesKycSession(p) ==
    \/ proc[p].op \in KycSubmissionOps /\ proc[p].pc = "write"
    \/ proc[p].op = "sumsub_webhook" /\ proc[p].pc = "kyc_session"

\* C23: a session write of a submission step or of a webhook keeps what any
\* other operation wrote to the session, whenever it lands: every field it
\* does not produce keeps its value and the step tags already there stay, in
\* their order, before the one it adds; its own flag and tag are in the
\* document afterwards. So no interleaving of two operations loses an update.
C23_NoLostUpdate ==
    [][\A p \in Procs :
          (Steps(p) /\ WritesKycSession(p))
          => /\ Len(kyc_sessions') = Len(kyc_sessions)
             /\ \A i \in 1..Len(kyc_sessions) :
                   /\ \A f \in DOMAIN kyc_sessions[i]
                                  \ (Produces(proc[p].op) \cup {"steps_completed"}) :
                         kyc_sessions'[i][f] = kyc_sessions[i][f]
                   /\ Len(kyc_sessions'[i].steps_completed)
                         >= Len(kyc_sessions[i].steps_completed)
                   /\ SubSeq(kyc_sessions'[i].steps_completed, 1,
                             Len(kyc_sessions[i].steps_completed))
                         = kyc_sessions[i].steps_completed
             /\ proc[p].op \in KycSubmissionOps
                => LET i == proc[p].found
                   IN  /\ kyc_sessions'[i][StepFlag(proc[p].op)] = "True"
                       /\ kyc_sessions'[i].steps_completed
                             = Append(kyc_sessions[i].steps_completed,
                                      StepTag(proc[p].op))]_vars

\* two submission steps race on one session: both uploads were accepted, the
\* write of the back upload has landed and the front upload still waits for
\* its own write
C23_Witness ==
    \E p, q \in Procs :
        /\ proc[p].pc = "done" /\ proc[p].op = "scan_document_back"
        /\ proc[p].result.success
        /\ proc[q].pc = "write" /\ proc[q].op = "scan_document_front"
        /\ proc[q].found > 0
        /\ Len(kyc_sessions) = 1
        /\ kyc_sessions[proc[q].found].steps_completed = <<"document_back">>
        /\ kyc_sessions[proc[q].found].document_back_added = "True"

\* the webhook fields of a session and of a user record are as a delivery of
\* this payload leaves them
KycDelivered(d, data) ==
    /\ d.webhook_data = data /\ d.review_status = data.reviewStatus
    /\ d.status = (IF data.reviewStatus = "approved" THEN "completed"
                   ELSE IF data.reviewStatus = "rejected" THEN "failed" ELSE "pending")
    /\ d.verified = (IF data.reviewStatus = "approved" THEN "True" ELSE "False")

LivenessDelivered(d, data) ==
    /\ d.webhook_data = data /\ d.review_status = data.reviewStatus
    /\ d.status = (IF data.reviewStatus = "approved" THEN "completed"
                   ELSE IF data.reviewStatus = "rejected" THEN "failed" ELSE "pending")
    /\ d.is_live = (IF data.reviewStatus = "approved" THEN "True" ELSE "False")

KycUserDelivered(u, data) ==
    /\ u.exists /\ u.kyc_review_status = data.reviewStatus
    /\ u.verified = (IF data.reviewStatus = "approved" THEN "True" ELSE "False")
    /\ u.kyc_completed = u.verified

LivenessUserDelivered(u, data) ==
    /\ u.exists /\ u.liveness_review_status = data.reviewStatus
    /\ u.liveness_verified = (IF data.reviewStatus = "approved" THEN "True" ELSE "False")
    /\ u.liveness_completed = u.liveness_verified

\* C24: a webhook write that finds the session, or the user record, as a
\* delivery of the same payload left it changes nothing: delivering a payload
\* again leaves the stores as the first delivery left them.
C24_WebhookIdempotent ==
    [][\A p \in Procs :
          (Steps(p) /\ proc[p].op = "sumsub_webhook" /\ proc[p].found > 0)
          => LET data == [externalUserId |-> proc[p].body.externalUserId,
                          reviewStatus |-> proc[p].body.reviewStatus]
             IN  /\ (/\ proc[p].pc = "kyc_session"
                     /\ KycDelivered(kyc_sessions[proc[p].found], data))
                    => kyc_sessions' = kyc_sessions
                 /\ (/\ proc[p].pc = "liveness_session"
                     /\ LivenessDelivered(liveness_sessions[proc[p].found], data))
                    => liveness_sessions' = liveness_sessions
                 /\ (/\ proc[p].pc = "kyc_user"
                     /\ KycUserDelivered(users[kyc_sessions[proc[p].found].user_id], data))
                    => users' = users
                 /\ (/\ proc[p].pc = "liveness_user"
                     /\ LivenessUserDelivered(
                            users[liveness_sessions[proc[p].found].user_id], data))
                    => users' = users]_vars

\* one payload was delivered twice to a KYC session: the first delivery has
\* finished, the second has written the session and is about to write the
\* user record, which is as the first delivery left it
C24_Witness ==
    \E p, q \in Procs :
        /\ proc[p].pc = "done" /\ proc[p].op = "sumsub_webhook" /\ proc[p].result.success
        /\ proc[q].pc = "kyc_user" /\ proc[q].op = "sumsub_webhook"
        /\ proc[q].body = proc[p].body
        /\ KycDelivered(kyc_sessions[proc[q].found],
                        [externalUserId |-> proc[q].body.externalUserId,
                         reviewStatus |-> proc[q].body.reviewStatus])
        /\ KycUserDelivered(users[kyc_sessions[proc[q].found].user_id],
                            [externalUserId |-> proc[q].body.externalUserId,
                             reviewStatus |-> proc[q].body.reviewStatus])

\* no request is being handled
Quiescent == \A p \in Procs : proc[p].pc \in {"idle", "done"}

\* C25: once a webhook and a complete_kyc_verification call for one session and
\* its owning user have both finished (the three requests so far were the
\* start, the complete and the webhook, and no other user's record was
\* written), the verified flag of the session and that of the user's record
\* agree.
C25_WebhookAndCompleteConverge ==
    (Quiescent /\ reqs = 3 /\ Len(kyc_sessions) = 1)
    => LET d == kyc_sessions[1]
       IN  (/\ \E k \in 1..Len(d.steps_completed) : d.steps_completed[k] = "kyc_complete"
            /\ d.review_status # Absent
            /\ users[d.user_id].exists
            /\ users[d.user_id].kyc_review_status # Absent
            /\ users[d.user_id].kyc_session_id = d.kyc_session_id
            /\ \A u \in UserIds \ {d.user_id} : ~users[u].exists)
           => users[d.user_id].verified = d.verified

\* the positions of a user's most recent sessions in a collection (sort by
\* created_at, descending; sessions created at the same time are all most
\* recent)
MostRecent(coll, user_id) ==
    {i \in 1..Len(coll) :
        /\ coll[i].user_id = user_id
        /\ \A j \in 1..Len(coll) :
              coll[j].user_id = user_id => coll[j].created_at <= coll[i].created_at}

\* C26: while no request is being handled, the flags of every user record are
\* those of a most recent session of the user: verified and kyc_completed say
\* whether the most recent KYC session is verified and completed,
\* liveness_completed whether the most recent liveness session is completed;
\* a user without a session of a kind has none of its flags set.
C26_UserRecordDerivable ==
    Quiescent
    => \A u \in UserIds :
          /\ IF MostRecent(kyc_sessions, u) = {}
             THEN users[u].verified # "True" /\ users[u].kyc_completed # "True"
             ELSE \E i \in MostRecent(kyc_sessions, u) :
                     /\ (users[u].verified = "True") = (kyc_sessions[i].verified = "True")
                     /\ (users[u].kyc_completed = "True")
                           = (kyc_sessions[i].status = "completed")
          /\ IF MostRecent(liveness_sessions, u) = {}
             THEN users[u].liveness_completed # "True"
             ELSE \E i \in MostRecent(liveness_sessions, u) :
                     (users[u].liveness_completed = "True")
                        = (liveness_sessions[i].status = "completed")

\* C27: a verified, well-formed webhook is processed against the collection its
\* reference's type tag names: a reference beginning with kyc_ against the KYC
\* sessions, one beginning with liveness_ against the liveness sessions.
C27_RoutedByTypeTag ==
    [][\A p \in Procs :
          (/\ Steps(p) /\ proc[p].pc = "idle" /\ proc'[p].op = "sumsub_webhook"
           /\ proc'[p].body.valid /\ Verifies(proc'[p].body, proc'[p].headers)
           /\ Len(proc'[p].body.externalUserId) > 0)
          => LET tag == proc'[p].body.externalUserId[1]
             IN  /\ tag = "kyc"
                    => \/ proc'[p].pc = "kyc_session"
                       \/ /\ proc'[p].pc = "done"
                          /\ proc'[p].result.error = "KYC session not found"
                 /\ tag = "liveness"
                    => \/ proc'[p].pc = "liveness_session"
                       \/ /\ proc'[p].pc = "done"
                          /\ proc'[p].result.error = "Session not found"]_vars

\* C28: a status check that got the provider's answer returns progress 50 when
\* the status field of the answer is pending, 75 when it is processing and 100
\* when it is approved.
C28_ProgressFromProviderStatus ==
    \A p \in Procs :
        (/\ proc[p].pc = "done" /\ proc[p].op = "check_kyc_verification_status"
         /\ proc[p].result.success)
        => /\ proc[p].fetched = "pending" => proc[p].progress = 50
           /\ proc[p].fetched = "processing" => proc[p].progress = 75
           /\ proc[p].fetched = "approved" => proc[p].progress = 100

\* C29: the route of a step that returned a session-not-found result answers
\* 404.
C29_UnknownSessionIs404 ==
    \A p \in Procs :
        (/\ proc[p].pc = "done" /\ proc[p].op \in StepOps
         /\ proc[p].result.error \in {"KYC session not found", "Session not found"})
        => proc[p].response.code = 404

\* C30: the base64 encoding of a byte buffer, given to a submission step
\* without its trailing padding, is decoded to exactly that buffer.
C30_StrippedPaddingRoundTrip ==
    img_out.applied => (img_out.ok /\ img_out.bytes = img_in)

\* a buffer whose encoding loses two padding characters was decoded
C30_Witness ==
    /\ img_out.applied /\ img_out.ok
    /\ Len(img_in) = 1 /\ img_in[1] = 255
    /\ Len(StripPadding(B64Encode(img_in))) = 2
    /\ Len(B64Encode(img_in)) = 4
    /\ img_out.bytes = <<255>>

\* the errors a submission step returns for an image it cannot decode
DecodeErrors == {"Invalid image data", "Invalid base64 image"}

\* C31: a submission step whose image does not decode is answered with a 4xx
\* status by its route, and no provider call was made for it.
C31_DecodeFailureIsClientError ==
    [][\A p \in Procs :
          (/\ Steps(p) /\ proc[p].pc = "idle" /\ proc'[p].op \in SubmissionOps
           /\ proc'[p].result.error \in DecodeErrors)
          => /\ proc'[p].pc = "done"
             /\ proc'[p].response.code >= 400 /\ proc'[p].response.code < 500
             /\ provider' = provider]_vars

C33_SignatureDeterminedByBody ==
    sg.pc = "pair" => ((sg.a = sg.b) <=> (sg.sig_a = sg.sig_b))

\* two serializations that differ in the boundary only were signed
C33_Witness ==
    /\ sg.pc = "pair" /\ sg.a # sg.b
    /\ Len(sg.a) = Len(sg.b) /\ Len(sg.a) > 3
    /\ \A i \in 1..Len(sg.a) : sg.a[i] # sg.b[i] => sg.a[i] \in Boundaries
    /\ sg.sig_a # sg.sig_b

\* C34: the user write of a complete step changes no user record but that of
\* the owner of the session, the user_id stored in the session.
C34_CompleteWritesOwnerOnly ==
    [][\A p \in Procs :
          (Steps(p) /\ proc[p].op \in CompleteOps /\ proc[p].pc = "user")
          => LET owner == IF proc[p].op = "complete_kyc_verification"
                          THEN kyc_sessions[proc[p].found].user_id
                          ELSE liveness_sessions[proc[p].found].user_id
             IN  \A u \in UserIds \ {owner} : users'[u] = users[u]]_vars

\* C35: the session write of a complete step makes a KYC session completed
\* only if document_front and selfie are among its steps_completed, and a
\* liveness session only if its selfie was submitted.
C35_CompleteNeedsSubmittedSteps ==
    [][\A p \in Procs :
          (Steps(p) /\ proc[p].op \in CompleteOps /\ proc[p].pc = "session")
          => IF proc[p].op = "complete_kyc_verification"
             THEN LET d == kyc_sessions[proc[p].found]
                  IN  (d.status # "completed"
                       /\ kyc_sessions'[proc[p].found].status = "completed")
                      => /\ Occurrences(d.steps_completed, "document_front") > 0
                         /\ Occurrences(d.steps_completed, "selfie") > 0
             ELSE LET d == liveness_sessions[proc[p].found]
                  IN  (d.status # "completed"
                       /\ liveness_sessions'[proc[p].found].status = "completed")
                      => d.selfie_added = "True"]_vars

\* C36: no two sessions of one collection carry the same external_user_id.
C36_ExternalRefUnique ==
    /\ \A i, j \in 1..Len(kyc_sessions) :
          kyc_sessions[i].external_user_id = kyc_sessions[j].external_user_id => i = j
    /\ \A i, j \in 1..Len(liveness_sessions) :
          liveness_sessions[i].external_user_id = liveness_sessions[j].external_user_id
             => i = j

\* the reference of the first KYC applicant of user u1
EarlyRef == ExternalUserId("kyc", <<"u1">>, 0)

\* an approved webhook for the applicant was answered while the start call that
\* created the applicant had not yet inserted the session
EarlyWebhookHandled ==
    \E p, q \in Procs :
        /\ proc[p].pc = "done" /\ proc[p].op = "sumsub_webhook"
        /\ proc[p].body.externalUserId = EarlyRef
        /\ proc[p].body.reviewStatus = "approved"
        /\ proc[p].result.error = "KYC session not found"
        /\ proc[q].pc = "insert" /\ proc[q].op = "start_kyc_verification"
        /\ proc[q].ext = EarlyRef

EarlyVerdictReflected ==
    \E i \in 1..Len(kyc_sessions) :
        /\ kyc_sessions[i].external_user_id = EarlyRef
        /\ kyc_sessions[i].status = "completed"

\* C37: a correctly signed approved webhook handled before the start call
\* inserted the session is not lost: the session, once it exists, comes to
\* status completed.
C37_EarlyWebhookNotLost == EarlyWebhookHandled ~> EarlyVerdictReflected

ReadOps == {"check_kyc_verification_status", "get_user_verification_status"}

\* C38: a status check and a user status read leave every session and every
\* user record as they were, whatever the provider answered.
C38_StatusReadsAreReadOnly ==
    [][\A p \in Procs :
          (Steps(p) /\ proc'[p].op \in ReadOps)
          => /\ proc[p].pc = "idle" /\ proc'[p].pc = "done"
             /\ UNCHANGED <<kyc_sessions, liveness_sessions, users>>]_vars

\* the provider reported approved to a status check of a session that is
\* still initiated and unverified
C38_Witness ==
    \E p \in Procs, i \in 1..Len(kyc_sessions) :
        /\ proc[p].pc = "done" /\ proc[p].op = "check_kyc_verification_status"
        /\ proc[p].result.success /\ proc[p].fetched = "approved"
        /\ proc[p].progress = 100
        /\ kyc_sessions[i].kyc_session_id = proc[p].sid
        /\ kyc_sessions[i].status = "initiated"
        /\ kyc_sessions[i].review_status = Absent

\* C39: GET /liveness/result/{session_id} for a stored liveness session is
\* answered with the result of a provider poll; 404 is the only error answer,
\* given when the poll reports failure.
C39_LivenessResultPollsProvider ==
    \A p \in Procs :
        (/\ proc[p].pc = "done" /\ proc[p].op = "check_liveness_result"
         /\ \E i \in 1..Len(liveness_sessions) :
               liveness_sessions[i].session_id = proc[p].sid)
        => proc[p].response.code \in {200, 404}

====
